---------------------------- MODULE Spec2Model ----------------------------
(***************************************************************************)
(* Waflens: navigation/search state machine (src/src/app.rs, the event     *)
(* loop of src/src/main.rs) and the /24 enrichment cache                    *)
(* (src/src/ipapi.rs), and the audit log parser (src/src/parser.rs).        *)
(*                                                                         *)
(* Strings are sequences of one-character strings, so that substring       *)
(* search, trimming, lower-casing, address parsing and number formatting   *)
(* are computed, not assumed.                                               *)
(***************************************************************************)
EXTENDS Integers, Sequences, FiniteSets, TLC

VARIABLES
    \* the fields of App
    audit_groups, filtered_groups, selected_index, scroll_offset,
    search_query, search_mode, current_view, detail_scroll, should_quit,
    last_click_time, last_click_row, ip_api_enabled, current_ip_info,
    \* IpApiCache.cache: a set of <<key, blob>> pairs
    cache,
    \* the process has aborted on an arithmetic overflow
    panicked,
    \* the handler that ran last, and the arguments of a direct call
    last_op, last_args,
    \* the request the last handler sent to the enrichment service:
    \* None, or Some(<<key, "Ok" or "Err">>)
    last_fetch,
    \* the get_ip_info calls made so far: address, value returned, key requested
    \* from the service (None on a hit), the transport's outcome, the cache
    \* map before and after
    calls,
    \* the handle_click calls made so far: row, instant, and the value
    \* returned ("panic" when the call aborted)
    clicks,
    \* threads inside get_ip_info on a shared IpApiCache: for each thread its
    \* position in the method, its argument, its local cache_key and
    \* pretty_json, the value it returned and whether it sent a request
    threads,
    \* AuditLogParser::parse_log_file: the lines of the decoded file
    content,
    \* the locals of parse_entries_with_loading
    line_num, current_id, accumulated_content, entries,
    \* the position of parse_log_file and the Vec<AuditGroup> it returned
    stage, result,
    \* the calls of LoadingScreen::draw so far: <<step, progress>>
    progress,
    \* the chain ids, in order, returned by the previous parse of the same file
    previous_ids

\* the variables of the parser
parse_vars == <<content, line_num, current_id, accumulated_content, entries,
                stage, result, progress, previous_ids>>

\* the fields of App other than the enrichment cache
app_vars == <<audit_groups, filtered_groups, selected_index, scroll_offset,
              search_query, search_mode, current_view, detail_scroll, should_quit,
              last_click_time, last_click_row, ip_api_enabled, current_ip_info>>

vars == <<audit_groups, filtered_groups, selected_index, scroll_offset,
          search_query, search_mode, current_view, detail_scroll, should_quit,
          last_click_time, last_click_row, ip_api_enabled, current_ip_info,
          cache, panicked, last_op, last_args, last_fetch, calls, clicks,
          threads, content, line_num, current_id, accumulated_content, entries,
          stage, result, progress, previous_ids>>

(***************************************************************************)
(* Bounds of the model.                                                    *)
(***************************************************************************)
\* longest search query the operator types
MaxQueryLen == 2
\* page_down is taken only while scroll_offset + page_size stays within this
MaxScroll == 20
\* detail scrolling is followed from offsets up to this one (and from usize::MAX)
MaxDetailScroll == 0
\* latest instant at which a click is observed, in milliseconds
MaxTime == 500
\* number of direct get_ip_info calls followed by the cache specification
MaxCalls == 3
\* number of direct handle_click calls followed by the click specification
MaxClicks == 3
\* width of usize in the model
UsizeBits == 6
\* number of chunks a log file is made of
MaxChunks == 3
\* number of chains in the lists the movement methods are called on
MaxRows == 5
\* largest viewport height and page size passed to the movement methods
MaxHeight == 3
\* bits of one digit of the numbers the f64 arithmetic works on
LimbBits == 12
\* digits after the point to which the quotient of an f64 division is
\* developed before it is rounded
QuotientLimbs == 8
\* length of the longest log file, in halves of PROGRESS_INTERVAL lines
MaxHalfIntervals == 4
\* number of lines of a block after its boundary line, for create_entry
MaxBlockLines == 2

(***************************************************************************)
(* Program constants.                                                      *)
(***************************************************************************)
VISIBLE_HEIGHT == 20
PAGE_SIZE == 10
DOUBLE_CLICK_MS == 500
\* parse_entries_with_loading draws its progress every PROGRESS_INTERVAL lines
PROGRESS_INTERVAL == 1000
\* f64::MANTISSA_DIGITS
MANTISSA_DIGITS == 53

USIZE_MAX == 2^UsizeBits - 1

\* let x = e; .. : Only({ F(x) : x \in {e} }) is F applied to the value of e
Only(S) == CHOOSE r \in S : TRUE

\* Option<T>: None is the empty tuple, Some(v) the one-element tuple
None == <<>>
Some(v) == <<v>>
IsSome(o) == o # None
Unwrap(o) == o[1]

(***************************************************************************)
(* Rust string and integer primitives used by the program.                 *)
(***************************************************************************)
Digits == <<"0", "1", "2", "3", "4", "5", "6", "7", "8", "9">>

IsDigit(c) == \E i \in 1..10 : Digits[i] = c

DigitVal(c) == (CHOOSE i \in 1..10 : Digits[i] = c) - 1

\* char::to_lowercase over the letters of the model's alphabet
LowerChar(c) ==
    CASE c = "A" -> "a"
      [] c = "B" -> "b"
      [] c = "C" -> "c"
      [] c = "D" -> "d"
      [] c = "F" -> "f"
      [] c = "I" -> "i"
      [] c = "P" -> "p"
      [] OTHER -> c

\* str::to_lowercase
to_lowercase(s) == [i \in 1..Len(s) |-> LowerChar(s[i])]

\* str::contains(&str)
contains(s, pat) ==
    \E hay \in {s}, needle \in {pat} :
        \E i \in 0..(Len(hay) - Len(needle)) :
            \A j \in 1..Len(needle) : hay[i + j] = needle[j]

IsWhite(c) == c \in {" ", "\t", "\r", "\n"}

\* str::trim
trim(s) ==
    IF \A i \in 1..Len(s) : IsWhite(s[i]) THEN <<>>
    ELSE LET first == CHOOSE i \in 1..Len(s) :
                          ~IsWhite(s[i]) /\ \A j \in 1..(i - 1) : IsWhite(s[j])
             last  == CHOOSE i \in 1..Len(s) :
                          ~IsWhite(s[i]) /\ \A j \in (i + 1)..Len(s) : IsWhite(s[j])
         IN  SubSeq(s, first, last)

\* str::split_once(':')
split_once(s) ==
    IF \E i \in 1..Len(s) : s[i] = ":"
    THEN LET p == CHOOSE i \in 1..Len(s) :
                      s[i] = ":" /\ \A j \in 1..(i - 1) : s[j] # ":"
         IN  Some(<<SubSeq(s, 1, p - 1), SubSeq(s, p + 1, Len(s))>>)
    ELSE None

\* u8/u16 Display: decimal digits without sign or padding
RECURSIVE to_string(_)
to_string(n) ==
    IF n < 10 THEN <<Digits[n + 1]>>
    ELSE to_string(n \div 10) \o <<Digits[(n % 10) + 1]>>

\* usize::saturating_sub
saturating_sub(a, b) == IF a >= b THEN a - b ELSE 0

\* usize::min
Min(a, b) == IF a <= b THEN a ELSE b


(***************************************************************************)
(* Addresses and the cache key (src/src/ipapi.rs).                         *)
(***************************************************************************)
\* the pieces of s between occurrences of the character sep
RECURSIVE Split(_, _)
Split(s, sep) ==
    IF \E i \in 1..Len(s) : s[i] = sep
    THEN Only({ <<SubSeq(s, 1, p - 1)>> \o
                Only({ Split(rest, sep) : rest \in {SubSeq(s, p + 1, Len(s))} }) :
        p \in {CHOOSE i \in 1..Len(s) :
                  s[i] = sep /\ \A j \in 1..(i - 1) : s[j] # sep} })
    ELSE <<s>>

RECURSIVE DecimalUpTo(_, _)
DecimalUpTo(ds, n) ==
    IF n = 0 THEN 0
    ELSE 10 * DecimalUpTo(ds, n - 1) + DigitVal(ds[n])

DecimalValue(ds) == DecimalUpTo(ds, Len(ds))

\* one octet of Ipv4Addr::from_str: 1 to 3 decimal digits, no leading zero
\* on a longer number, value at most 255
IsOctet(ds) ==
    /\ Len(ds) \in 1..3
    /\ \A i \in 1..Len(ds) : IsDigit(ds[i])
    /\ (Len(ds) > 1 => ds[1] # "0")
    /\ DecimalValue(ds) <= 255

\* str::parse::<Ipv4Addr>: Some(octets) or None
parse_ipv4(ip) ==
    Only({ IF Len(parts) = 4 /\ \A i \in 1..4 : IsOctet(parts[i])
             THEN Some([i \in 1..4 |-> DecimalValue(parts[i])])
             ELSE None :
        parts \in {Split(ip, ".")} })

IsHexOrColon(c) == IsDigit(c) \/ c \in {"a", "b", "c", "d", "e", "f",
                                        "A", "B", "C", "D", "E", "F", ":"}

\* str::parse::<Ipv6Addr> succeeds: groups of 1 to 4 hex digits separated by
\* colons, 8 groups or one "::" standing for the missing ones
parse_ipv6_ok(ip) ==
    \E parts \in {Split(ip, ":")} :
    LET n == Len(parts)
        empties == {i \in 1..n : Len(parts[i]) = 0}
        inner == {i \in empties : 1 < i /\ i < n}
    IN  /\ Len(ip) >= 2
        /\ \A i \in 1..Len(ip) : IsHexOrColon(ip[i])
        /\ \A i \in 1..n : Len(parts[i]) <= 4
        /\ \/ n = 8 /\ empties = {}
           \/ /\ n <= 8
              /\ Cardinality(inner) = 1
              /\ (1 \in empties => 2 \in inner)
              /\ (n \in empties => (n - 1) \in inner)
           \/ ip = <<":", ":">>

\* str::parse::<IpAddr>
parse_ip(ip) ==
    Only({ IF IsSome(v4) THEN [kind |-> "V4", octets |-> Unwrap(v4)]
             ELSE IF parse_ipv6_ok(ip) THEN [kind |-> "V6", octets |-> <<>>]
             ELSE [kind |-> "Err", octets |-> <<>>] :
        v4 \in {parse_ipv4(ip)} })

\* a get_subnet_24 that keeps the host octet
get_subnet_32(ip) ==
    Only({ CASE addr.kind = "V4" ->
                      Some(to_string(addr.octets[1]) \o <<".">> \o
                           to_string(addr.octets[2]) \o <<".">> \o
                           to_string(addr.octets[3]) \o <<".">> \o
                           to_string(addr.octets[4]))
               [] addr.kind = "V6" -> Some(ip)
               [] OTHER -> None :
        addr \in {parse_ip(ip)} })

\* IpApiCache::get_subnet_24
get_subnet_24(ip) ==
    Only({ CASE addr.kind = "V4" ->
                      Some(to_string(addr.octets[1]) \o <<".">> \o
                           to_string(addr.octets[2]) \o <<".">> \o
                           to_string(addr.octets[3]) \o <<".", "0">>)
               [] addr.kind = "V6" -> Some(ip)
               [] OTHER -> None :
        addr \in {parse_ip(ip)} })

\* let cache_key = Self::get_subnet_24(ip).unwrap_or_else(|| ip.to_string())
cache_key_of(ip) ==
    Only({ IF IsSome(subnet) THEN Unwrap(subnet) ELSE ip :
        subnet \in {get_subnet_24(ip)} })

\* Result<String>: Err, or Ok with the value
FetchErr == <<"Err">>
FetchOk(b) == <<"Ok", b>>

\* what the transport has for one request: an error (the request or the
\* decoding of the answer fails), or revision v of the service's answer
OutcomeErr == <<"Err", 0>>
OutcomeOk(v) == <<"Ok", v>>

\* the service's answers change over time: the revisions an answer can be at
\* when the cache is called directly, and during a session of the event loop
Revisions == {1, 2}
FetchOutcomes == {OutcomeErr} \cup {OutcomeOk(v) : v \in Revisions}
LoopOutcomes == {OutcomeErr, OutcomeOk(1)}

\* serde_json::to_string_pretty(&api_response): the answer to the request for
\* key at revision v, pretty-printed
pretty_json(key, v) == <<key, v>>

\* IpApiCache::get_ip_info as a function of the cache map (a set of
\* <<key, blob>> pairs holding at most one pair per key), the address and the
\* outcome the transport has for a request: the value returned, the map
\* afterwards and the key requested from the service (None on a hit)
CacheHas(c, k) == \E e \in c : e[1] = k
CacheGet(c, k) == (CHOOSE e \in c : e[1] = k)[2]
\* an insert that keeps the entry already stored under the key
CacheInsert_keeps_old(c, k, v) == c \cup {<<k, v>>}

CacheInsert(c, k, v) == {e \in c : e[1] # k} \cup {<<k, v>>}

\* a get_ip_info that requests the address itself from the service
get_ip_info_by_address(c, ip, outcome) ==
    Only({ IF CacheHas(c, cache_key)
                 THEN [ret |-> FetchOk(CacheGet(c, cache_key)), cache |-> c, fetched |-> None]
                 ELSE IF outcome = OutcomeErr
                 THEN [ret |-> FetchErr, cache |-> c, fetched |-> Some(ip)]
                 ELSE [ret |-> FetchOk(pretty_json(ip, outcome[2])),
                       cache |-> CacheInsert(c, cache_key, pretty_json(ip, outcome[2])),
                       fetched |-> Some(ip)] :
        cache_key \in {cache_key_of(ip)} })

\* a get_ip_info that stores an entry for the key also when the fetch fails
get_ip_info_caches_failure(c, ip, outcome) ==
    Only({ IF CacheHas(c, cache_key)
                 THEN [ret |-> FetchOk(CacheGet(c, cache_key)), cache |-> c, fetched |-> None]
                 ELSE IF outcome = OutcomeErr
                 THEN [ret |-> FetchErr,
                       cache |-> CacheInsert(c, cache_key, pretty_json(cache_key, 0)),
                       fetched |-> Some(cache_key)]
                 ELSE [ret |-> FetchOk(pretty_json(cache_key, outcome[2])),
                       cache |-> CacheInsert(c, cache_key, pretty_json(cache_key, outcome[2])),
                       fetched |-> Some(cache_key)] :
        cache_key \in {cache_key_of(ip)} })

\* a get_ip_info whose map holds the last fetched entry only
get_ip_info_evicts(c, ip, outcome) ==
    Only({ IF CacheHas(c, cache_key)
           THEN [ret |-> FetchOk(CacheGet(c, cache_key)), cache |-> c, fetched |-> None]
           ELSE IF outcome = OutcomeErr
           THEN [ret |-> FetchErr, cache |-> c, fetched |-> Some(cache_key)]
           ELSE [ret |-> FetchOk(pretty_json(cache_key, outcome[2])),
                 cache |-> {<<cache_key, pretty_json(cache_key, outcome[2])>>},
                 fetched |-> Some(cache_key)] :
        cache_key \in {cache_key_of(ip)} })

get_ip_info(c, ip, outcome) ==
    Only({ IF CacheHas(c, cache_key)
                 THEN [ret |-> FetchOk(CacheGet(c, cache_key)), cache |-> c, fetched |-> None]
                 ELSE IF outcome = OutcomeErr
                 THEN [ret |-> FetchErr, cache |-> c, fetched |-> Some(cache_key)]
                 ELSE [ret |-> FetchOk(pretty_json(cache_key, outcome[2])),
                       cache |-> CacheInsert(c, cache_key, pretty_json(cache_key, outcome[2])),
                       fetched |-> Some(cache_key)] :
        cache_key \in {cache_key_of(ip)} })

\* Result::ok
ok(res) == IF res[1] = "Ok" THEN Some(res[2]) ELSE None


(***************************************************************************)
(* Chains as the navigation state sees them (AuditGroup, parser.rs) and    *)
(* the chain lists a parse of the log file can produce: sorted by          *)
(* first_timestamp, most recent first, one chain per base id.              *)
(***************************************************************************)
Group1 == [base_id |-> <<"a", "1">>, first_timestamp |-> 30,
           domain |-> <<"A", ".", "i", "o">>,
           client_ip |-> <<"2", "0", "3", ".", "0", ".", "1", "1", "3", ".", "1", "0">>,
           http_status |-> Some(404),
           primary_rule_ids |-> << <<"9", "4", "1">> >>]

Group2 == [base_id |-> <<"b", "2">>, first_timestamp |-> 20,
           domain |-> <<"b", ".", "i", "o">>,
           client_ip |-> <<"2", "0", "3", ".", "0", ".", "1", "1", "3", ".", "2", "0", "0">>,
           http_status |-> None,
           primary_rule_ids |-> << >>]

Group3 == [base_id |-> <<"c", "3">>, first_timestamp |-> 10,
           domain |-> <<"u", "n", "k", "n", "o", "w", "n">>,
           client_ip |-> <<":", ":", "1">>,
           http_status |-> Some(200),
           primary_rule_ids |-> << <<"9", "4", "2">>, <<"4">> >>]

\* a chain whose client address was logged with upper-case hexadecimal digits
Group4 == [base_id |-> <<"d", "4">>, first_timestamp |-> 5,
           domain |-> <<"b", ".", "i", "o">>,
           client_ip |-> <<"2", "0", "0", "1", ":", "D", "B", "8", ":", ":", "1">>,
           http_status |-> None,
           primary_rule_ids |-> << <<"9", "4", "1">> >>]

\* results of AuditLogParser::parse_log_file for the contents the log file
\* takes during a session
Logs == { <<>>, <<Group1, Group2, Group3>> }

\* characters the operator types into the search box
SearchChars == {"A", "4", "q"}

\* heights of the table's content area (table_area.height - 3) for which a
\* click can land on a row
ContentHeights == {1, 2}

\* gaps between two readings of the monotonic clock
ClickGaps == {250, 500}

(***************************************************************************)
(* App (src/src/app.rs). Methods are functions from the App value before   *)
(* the call to the App value after it. filtered_groups holds 0-based       *)
(* positions, as in the code.                                              *)
(***************************************************************************)
\* (0..n).collect()
Range0(n) == [i \in 1..n |-> i - 1]

\* App::matches_all_fields
matches_all_fields(group, query) ==
    \/ contains(to_lowercase(group.domain), query)
    \/ contains(group.client_ip, query)
    \/ contains(to_lowercase(group.base_id), query)
    \/ \E i \in 1..Len(group.primary_rule_ids) :
           contains(group.primary_rule_ids[i], query)
    \/ IF IsSome(group.http_status)
       THEN contains(to_string(Unwrap(group.http_status)), query)
       ELSE FALSE

\* App::matches_search
matches_search(q, group) ==
    \E query \in {to_lowercase(q)} :
    \E sp \in {split_once(query)} :
        IF IsSome(sp)
        THEN LET token == trim(Unwrap(sp)[1])
                 value == trim(Unwrap(sp)[2])
             IN  CASE token = <<"d", "o", "m", "a", "i", "n">> ->
                          contains(to_lowercase(group.domain), value)
                   [] token = <<"i", "p">> ->
                          contains(group.client_ip, value)
                   [] token \in { <<"r", "u", "l", "e">>,
                                  <<"r", "u", "l", "e", "i", "d">>,
                                  <<"i", "d">> } ->
                          \E i \in 1..Len(group.primary_rule_ids) :
                              contains(group.primary_rule_ids[i], value)
                   [] token = <<"a", "u", "d", "i", "t", "i", "d">> ->
                          contains(to_lowercase(group.base_id), value)
                   [] token \in { <<"s", "t", "a", "t", "u", "s">>,
                                  <<"h", "t", "t", "p">> } ->
                          IF IsSome(group.http_status)
                          THEN contains(to_string(Unwrap(group.http_status)), value)
                          ELSE FALSE
                   [] OTHER -> matches_all_fields(group, query)
        ELSE matches_all_fields(group, query)

\* the 0-based positions of groups kept by
\* iter().enumerate().filter(..).map(|(idx, _)| idx).collect()
RECURSIVE FilterPositions(_, _, _)
FilterPositions(groups, q, n) ==
    IF n = 0 THEN <<>>
    ELSE FilterPositions(groups, q, n - 1) \o
         (IF matches_search(q, groups[n]) THEN <<n - 1>> ELSE <<>>)

\* App::apply_search
apply_search(a) ==
    [a EXCEPT !.filtered_groups =
                  IF a.search_query = <<>>
                  THEN Range0(Len(a.audit_groups))
                  ELSE FilterPositions(a.audit_groups, a.search_query,
                                       Len(a.audit_groups)),
              !.selected_index = 0,
              !.scroll_offset = 0]

\* a construction that selects the last chain
new_selects_last(groups, enabled) ==
    [audit_groups |-> groups,
     filtered_groups |-> Range0(Len(groups)),
     selected_index |-> saturating_sub(Len(groups), 1),
     scroll_offset |-> 0,
     search_query |-> <<>>,
     search_mode |-> FALSE,
     current_view |-> "TableView",
     detail_scroll |-> 0,
     should_quit |-> FALSE,
     last_click_time |-> None,
     last_click_row |-> None,
     ip_api_enabled |-> enabled,
     cache |-> {},
     current_ip_info |-> None,
     panicked |-> FALSE,
     last_fetch |-> None]

\* App::new, for the parse result groups
new(groups, enabled) ==
    [audit_groups |-> groups,
     filtered_groups |-> Range0(Len(groups)),
     selected_index |-> 0,
     scroll_offset |-> 0,
     search_query |-> <<>>,
     search_mode |-> FALSE,
     current_view |-> "TableView",
     detail_scroll |-> 0,
     should_quit |-> FALSE,
     last_click_time |-> None,
     last_click_row |-> None,
     ip_api_enabled |-> enabled,
     cache |-> {},
     current_ip_info |-> None,
     panicked |-> FALSE,
     last_fetch |-> None]

\* a refresh that does not re-apply the search query
refresh_unfiltered(a, parsed) ==
    IF parsed = None THEN a
    ELSE LET b == [a EXCEPT !.audit_groups = Unwrap(parsed),
                            !.filtered_groups = Range0(Len(Unwrap(parsed)))]
             max_index == saturating_sub(Len(b.filtered_groups), 1)
         IN  [b EXCEPT !.selected_index = Min(a.selected_index, max_index),
                       !.scroll_offset = Min(a.scroll_offset, max_index)]

\* a refresh that resets the selection and the scroll offset
refresh_resets(a, parsed) ==
    IF parsed = None THEN a
    ELSE apply_search([a EXCEPT
                          !.audit_groups = Unwrap(parsed),
                          !.filtered_groups = Range0(Len(Unwrap(parsed)))])

\* a refresh that empties the list when the parse fails
refresh_empties_on_failure(a, parsed) ==
    IF parsed = None
    THEN apply_search([a EXCEPT !.audit_groups = <<>>, !.filtered_groups = <<>>])
    ELSE LET saved_selected_index == a.selected_index
             saved_scroll_offset == a.scroll_offset
         IN  Only({ LET max_index == saturating_sub(Len(b.filtered_groups), 1)
                      IN  [b EXCEPT
                              !.selected_index = Min(saved_selected_index, max_index),
                              !.scroll_offset = Min(saved_scroll_offset, max_index)] :
        b \in {apply_search([a EXCEPT
                      !.audit_groups = Unwrap(parsed),
                      !.filtered_groups = Range0(Len(Unwrap(parsed)))])} })

\* App::refresh; parsed is Some(groups), or None when parse_log_file fails
refresh(a, parsed) ==
    IF parsed = None THEN a
    ELSE LET saved_selected_index == a.selected_index
             saved_scroll_offset == a.scroll_offset
         IN  Only({ LET max_index == saturating_sub(Len(b.filtered_groups), 1)
                      IN  [b EXCEPT
                              !.selected_index = Min(saved_selected_index, max_index),
                              !.scroll_offset = Min(saved_scroll_offset, max_index)] :
        b \in {apply_search([a EXCEPT
                      !.audit_groups = Unwrap(parsed),
                      !.filtered_groups = Range0(Len(Unwrap(parsed)))])} })

\* App::selected_group
selected_group(a) ==
    IF a.selected_index < Len(a.filtered_groups)
       /\ a.filtered_groups[a.selected_index + 1] < Len(a.audit_groups)
    THEN Some(a.audit_groups[a.filtered_groups[a.selected_index + 1] + 1])
    ELSE None

\* App::move_selection_up
move_selection_up(a) ==
    IF a.selected_index > 0
    THEN LET s == a.selected_index - 1
         IN  [a EXCEPT !.selected_index = s,
                       !.scroll_offset = IF s < a.scroll_offset THEN s
                                         ELSE a.scroll_offset]
    ELSE a

\* visible_height - 1 on usize: below zero the build either aborts
\* (overflow checks on) or wraps
HeightMinusOne(visible_height, checks) ==
    IF visible_height >= 1 THEN Some(visible_height - 1)
    ELSE IF checks THEN None
    ELSE Some(USIZE_MAX)

\* a move down that snaps the scroll offset to the selection itself
move_selection_down_to_top(a, visible_height, checks) ==
    IF a.selected_index < saturating_sub(Len(a.filtered_groups), 1)
    THEN LET s == a.selected_index + 1
         IN  IF s >= a.scroll_offset + visible_height
             THEN [a EXCEPT !.selected_index = s, !.scroll_offset = s]
             ELSE [a EXCEPT !.selected_index = s]
    ELSE a

\* App::move_selection_down
move_selection_down(a, visible_height, checks) ==
    IF a.selected_index < saturating_sub(Len(a.filtered_groups), 1)
    THEN LET s == a.selected_index + 1
             h1 == HeightMinusOne(visible_height, checks)
         IN  IF s >= a.scroll_offset + visible_height
             THEN IF h1 = None
                  THEN [a EXCEPT !.selected_index = s, !.panicked = TRUE]
                  ELSE [a EXCEPT !.selected_index = s,
                                 !.scroll_offset = saturating_sub(s, Unwrap(h1))]
             ELSE [a EXCEPT !.selected_index = s]
    ELSE a

\* App::page_up
page_up(a, page_size) ==
    [a EXCEPT !.selected_index = saturating_sub(a.selected_index, page_size),
              !.scroll_offset = saturating_sub(a.scroll_offset, page_size)]

\* a page_down that does not clamp the selection
page_down_unclamped(a, page_size) ==
    [a EXCEPT !.selected_index = a.selected_index + page_size,
              !.scroll_offset = a.scroll_offset + page_size]

\* App::page_down
page_down(a, page_size) ==
    [a EXCEPT !.selected_index =
                  Min(a.selected_index + page_size,
                      saturating_sub(Len(a.filtered_groups), 1)),
              !.scroll_offset = a.scroll_offset + page_size]

\* usize += k: past usize::MAX the build either aborts (overflow checks on)
\* or wraps
checked_add(n, k, checks) ==
    IF n + k <= USIZE_MAX THEN Some(n + k)
    ELSE IF checks THEN None
    ELSE Some((n + k) % (USIZE_MAX + 1))

\* App::scroll_detail_up
scroll_detail_up(a) ==
    [a EXCEPT !.detail_scroll = saturating_sub(a.detail_scroll, 1)]

\* App::scroll_detail_down
scroll_detail_down(a, checks) ==
    LET r == checked_add(a.detail_scroll, 1, checks)
    IN  IF r = None THEN [a EXCEPT !.panicked = TRUE]
        ELSE [a EXCEPT !.detail_scroll = Unwrap(r)]

\* App::page_detail_up
page_detail_up(a, page_size) ==
    [a EXCEPT !.detail_scroll = saturating_sub(a.detail_scroll, page_size)]

\* App::page_detail_down
page_detail_down(a, page_size, checks) ==
    LET r == checked_add(a.detail_scroll, page_size, checks)
    IN  IF r = None THEN [a EXCEPT !.panicked = TRUE]
        ELSE [a EXCEPT !.detail_scroll = Unwrap(r)]

\* App::scroll_detail_home
scroll_detail_home(a) == [a EXCEPT !.detail_scroll = 0]

\* App::scroll_detail_end
scroll_detail_end(a) == [a EXCEPT !.detail_scroll = USIZE_MAX]

\* App::enter_search_mode
enter_search_mode(a) == [a EXCEPT !.search_mode = TRUE]

\* App::exit_search_mode
exit_search_mode(a) == [a EXCEPT !.search_mode = FALSE]

\* App::add_search_char
add_search_char(a, c) ==
    apply_search([a EXCEPT !.search_query = Append(a.search_query, c)])

\* String::pop
pop(s) == IF Len(s) = 0 THEN s ELSE SubSeq(s, 1, Len(s) - 1)

\* a remove_search_char that returns early on an empty query
remove_search_char_guarded(a) ==
    IF a.search_query = <<>> THEN a
    ELSE apply_search([a EXCEPT !.search_query = pop(a.search_query)])

\* App::remove_search_char
remove_search_char(a) ==
    apply_search([a EXCEPT !.search_query = pop(a.search_query)])

\* App::clear_search
clear_search(a) ==
    [a EXCEPT !.search_query = <<>>,
              !.filtered_groups = Range0(Len(a.audit_groups)),
              !.selected_index = 0,
              !.scroll_offset = 0]

\* a lookup that keeps the previous info when the lookup fails
lookup_selected_keeps_stale(a, outcome) ==
    IF IsSome(selected_group(a))
    THEN Only({ [a EXCEPT !.current_ip_info = IF r.ret[1] = "Ok" THEN ok(r.ret)
                                                ELSE a.current_ip_info,
                            !.cache = r.cache,
                            !.last_fetch = IF r.fetched = None THEN None
                                           ELSE Some(<<Unwrap(r.fetched), outcome[1]>>)] :
        r \in {get_ip_info(a.cache, Unwrap(selected_group(a)).client_ip, outcome)} })
    ELSE a

\* if let Some(group) = self.selected_group() {
\*     self.current_ip_info = self.ip_api_cache.get_ip_info(&group.client_ip).ok(); }
lookup_selected(a, outcome) ==
    IF IsSome(selected_group(a))
    THEN Only({ [a EXCEPT !.current_ip_info = ok(r.ret),
                            !.cache = r.cache,
                            !.last_fetch = IF r.fetched = None THEN None
                                           ELSE Some(<<Unwrap(r.fetched), outcome[1]>>)] :
        r \in {get_ip_info(a.cache, Unwrap(selected_group(a)).client_ip, outcome)} })
    ELSE a

\* App::show_detail_view
show_detail_view(a, outcome) ==
    LET b == [a EXCEPT !.current_view = "DetailView", !.detail_scroll = 0]
    IN  IF b.ip_api_enabled THEN lookup_selected(b, outcome)
        ELSE [b EXCEPT !.current_ip_info = None]

\* a return to the table that drops the enrichment result
show_table_view_clears(a) ==
    [a EXCEPT !.current_view = "TableView", !.current_ip_info = None]

\* App::show_table_view
show_table_view(a) == [a EXCEPT !.current_view = "TableView"]

\* App::quit
quit(a) == [a EXCEPT !.should_quit = TRUE]

\* a double-click test that counts a gap of exactly DOUBLE_CLICK_MS
should_open_detail_inclusive(a, row, now) ==
    /\ IsSome(a.last_click_time)
    /\ IsSome(a.last_click_row)
    /\ Unwrap(a.last_click_row) = row
    /\ now - Unwrap(a.last_click_time) <= DOUBLE_CLICK_MS

\* the double-click test of App::handle_click: its return value
should_open_detail(a, row, now) ==
    /\ IsSome(a.last_click_time)
    /\ IsSome(a.last_click_row)
    /\ Unwrap(a.last_click_row) = row
    /\ now - Unwrap(a.last_click_time) < DOUBLE_CLICK_MS

\* a handle_click that forgets the click once it has signalled a double click
handle_click_forgets_on_open(a, row, visible_height, now, checks) ==
    LET h1 == HeightMinusOne(visible_height, checks)
        b == [a EXCEPT !.selected_index = row]
        opens == /\ IsSome(a.last_click_time)
                 /\ IsSome(a.last_click_row)
                 /\ Unwrap(a.last_click_row) = row
                 /\ now - Unwrap(a.last_click_time) < DOUBLE_CLICK_MS
    IN  IF row >= a.scroll_offset /\ row >= a.scroll_offset + visible_height
           /\ h1 = None
        THEN [b EXCEPT !.panicked = TRUE]
        ELSE [b EXCEPT
                 !.scroll_offset =
                     IF row < a.scroll_offset THEN row
                     ELSE IF row >= a.scroll_offset + visible_height
                     THEN saturating_sub(row, Unwrap(h1))
                     ELSE a.scroll_offset,
                 !.last_click_time = IF opens THEN None ELSE Some(now),
                 !.last_click_row = IF opens THEN None ELSE Some(row)]

\* App::handle_click: the App value after the call
handle_click(a, row, visible_height, now, checks) ==
    LET h1 == HeightMinusOne(visible_height, checks)
        b == [a EXCEPT !.selected_index = row]
    IN  IF row >= a.scroll_offset /\ row >= a.scroll_offset + visible_height
           /\ h1 = None
        THEN [b EXCEPT !.panicked = TRUE]
        ELSE [b EXCEPT
                 !.scroll_offset =
                     IF row < a.scroll_offset THEN row
                     ELSE IF row >= a.scroll_offset + visible_height
                     THEN saturating_sub(row, Unwrap(h1))
                     ELSE a.scroll_offset,
                 !.last_click_time = Some(now),
                 !.last_click_row = Some(row)]

(***************************************************************************)
(* Key and mouse handlers (src/src/main.rs), as functions on the App value *)
(***************************************************************************)
\* handle_table_input, KeyCode::Home
table_home(a) == [a EXCEPT !.selected_index = 0, !.scroll_offset = 0]

\* handle_table_input, KeyCode::End
table_end(a) ==
    LET last == saturating_sub(Len(a.filtered_groups), 1)
    IN  [a EXCEPT !.selected_index = last,
                  !.scroll_offset = saturating_sub(last, VISIBLE_HEIGHT - 1)]

\* handle_search_input, KeyCode::Esc
search_esc(a) == clear_search(exit_search_mode(a))

\* handle_detail_input, KeyCode::Left
detail_left(a, outcome) ==
    LET b == [move_selection_up(a) EXCEPT !.detail_scroll = 0]
    IN  IF b.ip_api_enabled THEN lookup_selected(b, outcome) ELSE b

\* a Right key that moves to the next chain and keeps the info on display
detail_right_keeps_info(a, outcome) ==
    [move_selection_down(a, VISIBLE_HEIGHT, TRUE) EXCEPT !.detail_scroll = 0]

\* handle_detail_input, KeyCode::Right
detail_right(a, outcome) ==
    LET b == [move_selection_down(a, VISIBLE_HEIGHT, TRUE) EXCEPT !.detail_scroll = 0]
    IN  IF b.ip_api_enabled THEN lookup_selected(b, outcome) ELSE b

\* handle_mouse_input for a press on content row clicked_row of a table
\* whose content area is content_height rows high
mouse_down(a, clicked_row, content_height, now, outcome) ==
    LET actual_index == a.scroll_offset + clicked_row
    IN  IF actual_index < Len(a.filtered_groups)
        THEN LET b == handle_click(a, actual_index, content_height, now, TRUE)
             IN  IF should_open_detail(a, actual_index, now)
                 THEN show_detail_view(b, outcome)
                 ELSE b
        ELSE a

(***************************************************************************)
(* The state as an App value, and its write-back.                          *)
(***************************************************************************)
App ==
    [audit_groups |-> audit_groups,
     filtered_groups |-> filtered_groups,
     selected_index |-> selected_index,
     scroll_offset |-> scroll_offset,
     search_query |-> search_query,
     search_mode |-> search_mode,
     current_view |-> current_view,
     detail_scroll |-> detail_scroll,
     should_quit |-> should_quit,
     last_click_time |-> last_click_time,
     last_click_row |-> last_click_row,
     ip_api_enabled |-> ip_api_enabled,
     cache |-> cache,
     current_ip_info |-> current_ip_info,
     panicked |-> panicked,
     last_fetch |-> None]

Becomes(a) ==
    /\ audit_groups' = a.audit_groups
    /\ filtered_groups' = a.filtered_groups
    /\ selected_index' = a.selected_index
    /\ scroll_offset' = a.scroll_offset
    /\ search_query' = a.search_query
    /\ search_mode' = a.search_mode
    /\ current_view' = a.current_view
    /\ detail_scroll' = a.detail_scroll
    /\ should_quit' = a.should_quit
    /\ last_click_time' = a.last_click_time
    /\ last_click_row' = a.last_click_row
    /\ ip_api_enabled' = a.ip_api_enabled
    /\ cache' = a.cache
    /\ current_ip_info' = a.current_ip_info
    /\ panicked' = a.panicked
    /\ last_fetch' = a.last_fetch

Is(a) ==
    /\ audit_groups = a.audit_groups
    /\ filtered_groups = a.filtered_groups
    /\ selected_index = a.selected_index
    /\ scroll_offset = a.scroll_offset
    /\ search_query = a.search_query
    /\ search_mode = a.search_mode
    /\ current_view = a.current_view
    /\ detail_scroll = a.detail_scroll
    /\ should_quit = a.should_quit
    /\ last_click_time = a.last_click_time
    /\ last_click_row = a.last_click_row
    /\ ip_api_enabled = a.ip_api_enabled
    /\ cache = a.cache
    /\ current_ip_info = a.current_ip_info
    /\ panicked = a.panicked
    /\ last_fetch = a.last_fetch

\* parse_log_file is not running
NoParse ==
    /\ content = <<>>
    /\ line_num = 0
    /\ current_id = None
    /\ accumulated_content = <<>>
    /\ entries = <<>>
    /\ stage = "idle"
    /\ result = None
    /\ progress = <<>>
    /\ previous_ids = None

\* one handled event of run_app
Handled(op, a) ==
    \E after \in {a} :
        /\ Becomes(after)
        /\ last_op' = op
        /\ last_args' = <<>>
        /\ UNCHANGED <<calls, clicks, threads, parse_vars>>

\* the instant read by Instant::now(): later than the last instant read, by
\* one of the gaps
Base == IF IsSome(last_click_time) THEN Unwrap(last_click_time) ELSE 0

(***************************************************************************)
(* run_app (src/src/main.rs): one action per event.                        *)
(***************************************************************************)
Running == ~should_quit /\ ~panicked

\* a dispatch that takes table keys and clicks also while the search box is open
InTable_any_mode == Running /\ current_view = "TableView"

InTable == Running /\ current_view = "TableView" /\ ~search_mode
InSearch == Running /\ current_view = "TableView" /\ search_mode
InDetail == Running /\ current_view = "DetailView"

KeyQuit == InTable /\ Handled("quit", quit(App))

KeyUp == InTable /\ Handled("move_selection_up", move_selection_up(App))

KeyDown ==
    InTable /\ Handled("move_selection_down",
                       move_selection_down(App, VISIBLE_HEIGHT, TRUE))

KeyPageUp == InTable /\ Handled("page_up", page_up(App, VISIBLE_HEIGHT))

KeyPageDown ==
    /\ InTable
    /\ scroll_offset + VISIBLE_HEIGHT <= MaxScroll
    /\ Handled("page_down", page_down(App, VISIBLE_HEIGHT))

KeyHome == InTable /\ Handled("home", table_home(App))

KeyEnd == InTable /\ Handled("end", table_end(App))

KeyEnter ==
    /\ InTable
    /\ \E outcome \in LoopOutcomes :
           Handled("show_detail_view", show_detail_view(App, outcome))

KeySlash == InTable /\ Handled("enter_search_mode", enter_search_mode(App))

KeyRefresh ==
    /\ InTable
    /\ \E groups \in Logs : Handled("refresh", refresh(App, Some(groups)))

KeyRefreshFails == InTable /\ Handled("refresh_failed", refresh(App, None))

KeyEsc == InTable /\ Handled("clear_search", clear_search(App))

SearchChar ==
    /\ InSearch
    /\ Len(search_query) < MaxQueryLen
    /\ \E c \in SearchChars : Handled("add_search_char", add_search_char(App, c))

SearchBackspace == InSearch /\ Handled("remove_search_char", remove_search_char(App))

SearchEnter == InSearch /\ Handled("exit_search_mode", exit_search_mode(App))

SearchEsc == InSearch /\ Handled("search_esc", search_esc(App))

\* a detail view in which q ends the session
DetailBack_quits == InDetail /\ Handled("quit", quit(App))

DetailBack == InDetail /\ Handled("show_table_view", show_table_view(App))

\* detail scrolling is followed near the top of the content, and one line
\* or one page further down from usize::MAX
DetailWindow == detail_scroll <= MaxDetailScroll

DetailUp ==
    InDetail /\ DetailWindow /\ Handled("scroll_detail_up", scroll_detail_up(App))

DetailDown ==
    /\ InDetail
    /\ (DetailWindow \/ detail_scroll = USIZE_MAX)
    /\ \E checks \in BOOLEAN :
           Handled("scroll_detail_down", scroll_detail_down(App, checks))

DetailPageUp ==
    /\ InDetail
    /\ DetailWindow
    /\ Handled("page_detail_up", page_detail_up(App, PAGE_SIZE))

DetailPageDown ==
    /\ InDetail
    /\ (DetailWindow \/ detail_scroll = USIZE_MAX)
    /\ \E checks \in BOOLEAN :
           Handled("page_detail_down", page_detail_down(App, PAGE_SIZE, checks))

DetailHome == InDetail /\ Handled("scroll_detail_home", scroll_detail_home(App))

DetailEnd == InDetail /\ Handled("scroll_detail_end", scroll_detail_end(App))

DetailLeft ==
    /\ InDetail
    /\ \E outcome \in LoopOutcomes :
           Handled("detail_left", detail_left(App, outcome))

DetailRight ==
    /\ InDetail
    /\ \E outcome \in LoopOutcomes :
           Handled("detail_right", detail_right(App, outcome))

MouseDown ==
    /\ InTable
    /\ \E content_height \in ContentHeights, gap \in ClickGaps,
          outcome \in LoopOutcomes :
         \E clicked_row \in 0..(content_height - 1) :
           /\ Base + gap <= MaxTime
           /\ Handled("mouse_down",
                      mouse_down(App, clicked_row, content_height,
                                 Base + gap, outcome))

Init ==
    /\ \E groups \in Logs, enabled \in BOOLEAN : Is(new(groups, enabled))
    /\ last_op = "new"
    /\ last_args = <<>>
    /\ calls = <<>>
    /\ clicks = <<>>
    /\ threads = <<>>
    /\ NoParse

Next ==
    \/ KeyQuit \/ KeyUp \/ KeyDown \/ KeyPageUp \/ KeyPageDown \/ KeyHome
    \/ KeyEnd \/ KeyEnter \/ KeySlash \/ KeyRefresh \/ KeyRefreshFails
    \/ KeyEsc \/ SearchChar \/ SearchBackspace \/ SearchEnter \/ SearchEsc
    \/ DetailBack \/ DetailUp \/ DetailDown \/ DetailPageUp \/ DetailPageDown
    \/ DetailHome \/ DetailEnd \/ DetailLeft \/ DetailRight \/ MouseDown

Spec == Init /\ [][Next]_vars

(***************************************************************************)
(* The movement methods of App called directly, on lists of up to MaxRows  *)
(* chains and with viewports of 1 to MaxHeight rows.                       *)
(***************************************************************************)
\* one direct call of a method of App with the arguments args
Called(op, args, a) ==
    \E after \in {a} :
        /\ Becomes(after)
        /\ last_op' = op
        /\ last_args' = args
        /\ UNCHANGED <<calls, clicks, threads, parse_vars>>

CallMove ==
    \/ Called("move_selection_up", <<>>, move_selection_up(App))
    \/ \E visible_height \in 1..MaxHeight :
           Called("move_selection_down", <<visible_height>>,
                  move_selection_down(App, visible_height, TRUE))
    \/ \E page_size \in 1..MaxHeight :
           /\ scroll_offset + page_size <= MaxRows
           /\ Called("page_down", <<page_size>>, page_down(App, page_size))
    \/ \E page_size \in 1..MaxHeight :
           Called("page_up", <<page_size>>, page_up(App, page_size))

InitCalls ==
    /\ \E groups \in {[i \in 1..n |-> Group1] : n \in 0..MaxRows}
                      \cup {<<Group1, Group2, Group3, Group4>>} :
           Is(new(groups, FALSE))
    /\ last_op = "new"
    /\ last_args = <<>>
    /\ calls = <<>>
    /\ clicks = <<>>
    /\ threads = <<>>
    /\ NoParse

SpecMove == InitCalls /\ [][CallMove]_vars

\* the texts typed into the search box, one character at a time
Queries ==
    { <<"s", "t", "a", "t", "u", "s", ":", "4", "0", "4">>,
      <<"i", "p", ":", "2", "0", "3", ".", "0", ".", "1", "1", "3">>,
      <<"i", "p", ":", "d", "b", "8">>,
      <<"I", "P", " ", ":", " ", "1", "0">>,
      <<"D", "o", "m", "a", "i", "n", ":", " ", "A", ".", "i", "o">>,
      <<"r", "u", "l", "e", ":", "9", "4", "1">>,
      <<"r", "u", "l", "e", "i", "d", ":", "4", "2">>,
      <<"i", "d", ":", "4">>,
      <<"a", "u", "d", "i", "t", "i", "d", ":", "B", "2">>,
      <<"h", "t", "t", "p", ":", "2", "0", "0">>,
      <<"x", ":", "4">>,
      <<"A", ".", "I", "O">>,
      <<" ", "4", "0", "4">>,
      <<"i", "o", " ">>,
      <<"9", "4", "2">> }

\* handle_search_input called key by key
CallSearch ==
    \/ \E q \in Queries :
           /\ Len(search_query) < Len(q)
           /\ SubSeq(q, 1, Len(search_query)) = search_query
           /\ Called("add_search_char", <<q[Len(search_query) + 1]>>,
                     add_search_char(App, q[Len(search_query) + 1]))
    \/ Called("remove_search_char", <<>>, remove_search_char(App))
    \/ Called("clear_search", <<>>, clear_search(App))

SpecSearch == InitCalls /\ [][CallSearch]_vars

(***************************************************************************)
(* IpApiCache called directly by one sequential caller.                    *)
(***************************************************************************)
Addr10 == <<"2", "0", "3", ".", "0", ".", "1", "1", "3", ".", "1", "0">>
Addr200 == <<"2", "0", "3", ".", "0", ".", "1", "1", "3", ".", "2", "0", "0">>
AddrOther == <<"1", "0", ".", "0", ".", "0", ".", "7">>
AddrV6 == <<":", ":", "1">>
AddrBig == <<"2", "0", "3", ".", "0", ".", "1", "1", "3", ".", "2", "5", "6">>

\* addresses looked up
Addresses == {Addr10, Addr200, AddrOther, AddrV6, AddrBig}

CallGetIpInfo ==
    /\ Len(calls) < MaxCalls
    /\ \E ip \in Addresses, outcome \in FetchOutcomes :
         \E r \in {get_ip_info(cache, ip, outcome)} :
             /\ cache' = r.cache
             /\ calls' = Append(calls, [ip |-> ip, ret |-> r.ret,
                                        fetched |-> r.fetched,
                                        outcome |-> outcome[1],
                                        before |-> cache,
                                        after |-> r.cache])
    /\ last_op' = "get_ip_info"
    /\ last_args' = <<>>
    /\ UNCHANGED <<audit_groups, filtered_groups, selected_index, scroll_offset,
                   search_query, search_mode, current_view, detail_scroll,
                   should_quit, last_click_time, last_click_row, ip_api_enabled,
                   current_ip_info, panicked, last_fetch, clicks, threads,
                   parse_vars>>

InitCache ==
    /\ Is(new(<<>>, TRUE))
    /\ last_op = "new"
    /\ last_args = <<>>
    /\ calls = <<>>
    /\ clicks = <<>>
    /\ threads = <<>>
    /\ NoParse

SpecCache == InitCache /\ [][CallGetIpInfo]_vars

(***************************************************************************)
(* App::handle_click called directly, with any row and viewport height.    *)
(***************************************************************************)
\* rows and viewport heights passed to handle_click
ClickRows == 0..3
ClickHeights == {0, 1, 2}

\* gaps between two calls, in milliseconds
CallGaps == {499, 500, 600}

CallHandleClick ==
    /\ ~panicked
    /\ Len(clicks) < MaxClicks
    /\ \E row \in ClickRows, visible_height \in ClickHeights,
          gap \in CallGaps, checks \in BOOLEAN :
         \E after \in {handle_click(App, row, visible_height, Base + gap, checks)} :
             /\ Becomes(after)
             /\ clicks' = Append(clicks,
                    [row |-> row, time |-> Base + gap,
                     ret |-> IF after.panicked THEN "panic"
                             ELSE IF should_open_detail(App, row, Base + gap)
                             THEN "true" ELSE "false"])
             /\ last_args' = <<row, visible_height>>
    /\ last_op' = "handle_click"
    /\ UNCHANGED <<calls, threads, parse_vars>>

InitClick ==
    /\ Is(new(<<Group1, Group2, Group3>>, FALSE))
    /\ last_op = "new"
    /\ last_args = <<>>
    /\ calls = <<>>
    /\ clicks = <<>>
    /\ threads = <<>>
    /\ NoParse

SpecClick == InitClick /\ [][CallHandleClick]_vars

(***************************************************************************)
(* IpApiCache::get_ip_info entered by several threads on one shared cache. *)
(* The two lock scopes of the method are its atomic steps; the request to  *)
(* the service is made with the lock released.                             *)
(***************************************************************************)
Threads == {1, 2}

\* let cache_key = Self::get_subnet_24(ip).unwrap_or_else(|| ip.to_string());
ThreadEnter(t) ==
    /\ threads[t].pc = "idle"
    /\ \E ip \in Addresses :
           threads' = [threads EXCEPT ![t].pc = "check", ![t].ip = ip,
                                      ![t].cache_key = cache_key_of(ip)]
    /\ UNCHANGED cache

\* { let cache = self.cache.lock().unwrap();
\*   if let Some(cached) = cache.get(&cache_key) { return Ok(cached.clone()); } }
ThreadCheck(t) ==
    /\ threads[t].pc = "check"
    /\ IF CacheHas(cache, threads[t].cache_key)
       THEN threads' = [threads EXCEPT
                           ![t].pc = "done",
                           ![t].ret = Some(FetchOk(CacheGet(cache, threads[t].cache_key)))]
       ELSE threads' = [threads EXCEPT ![t].pc = "fetch"]
    /\ UNCHANGED cache

\* reqwest::blocking::get(&url)?, response.json()?, to_string_pretty(..)?
ThreadFetch(t) ==
    /\ threads[t].pc = "fetch"
    /\ \E outcome \in FetchOutcomes :
           IF outcome = OutcomeErr
           THEN threads' = [threads EXCEPT ![t].pc = "done",
                                           ![t].ret = Some(FetchErr),
                                           ![t].outcome = "Err"]
           ELSE threads' = [threads EXCEPT
                               ![t].pc = "store",
                               ![t].pretty_json =
                                   pretty_json(threads[t].cache_key, outcome[2]),
                               ![t].outcome = "Ok"]
    /\ UNCHANGED cache

\* { let mut cache = self.cache.lock().unwrap();
\*   cache.insert(cache_key, pretty_json.clone()); }  Ok(pretty_json)
ThreadStore(t) ==
    /\ threads[t].pc = "store"
    /\ cache' = CacheInsert(cache, threads[t].cache_key, threads[t].pretty_json)
    /\ threads' = [threads EXCEPT ![t].pc = "done",
                                  ![t].ret = Some(FetchOk(threads[t].pretty_json))]

ThreadStep ==
    /\ \E t \in Threads :
           ThreadEnter(t) \/ ThreadCheck(t) \/ ThreadFetch(t) \/ ThreadStore(t)
    /\ last_op' = "get_ip_info"
    /\ last_args' = <<>>
    /\ UNCHANGED <<app_vars, panicked, last_fetch, calls, clicks, parse_vars>>

InitThreads ==
    /\ Is(new(<<>>, TRUE))
    /\ last_op = "new"
    /\ last_args = <<>>
    /\ calls = <<>>
    /\ clicks = <<>>
    /\ threads = [t \in Threads |->
                      [pc |-> "idle", ip |-> <<>>, cache_key |-> <<>>,
                       pretty_json |-> <<>>, ret |-> None, outcome |-> "none"]]
    /\ NoParse

SpecThreads == InitThreads /\ [][ThreadStep]_vars

(***************************************************************************)
(* The audit log parser (src/src/parser.rs).                               *)
(*                                                                         *)
(* The decoded file is a sequence of lines and a line is the sequence of   *)
(* its whitespace-separated lexemes.  A lexeme is a piece of text one of   *)
(* the parser's regular expressions matches, or a plain word:              *)
(*   kind        value              text                                   *)
(*   "boundary"  <<id, letter>>     --id-letter--                          *)
(*   "stamp"     <<hour, offset>>   [01/Jan/2024:hour:00:00 +offset00]     *)
(*   "host"      value              Host:value   (to the end of the line)  *)
(*   "id"        digits             [id "digits"]                          *)
(*   "file"      path               [file "path"]                          *)
(*   "status"    digits             HTTP/1.1 digits                        *)
(*   "word"      text               text                                   *)
(***************************************************************************)
Lexeme(kind, value) == [k |-> kind, v |-> value]

\* the first n of a sequence of sequences, one after the other: the lexemes
\* of a text of several lines, the lines of several pieces of a file
RECURSIVE Concat(_, _)
Concat(seqs, n) ==
    IF n = 0 THEN <<>> ELSE Concat(seqs, n - 1) \o seqs[n]

\* Regex::captures(..).get(1) for a regex that matches the lexemes of one
\* kind: the value of the leftmost one
FirstOf(lexemes, kind) ==
    IF \E i \in 1..Len(lexemes) : lexemes[i].k = kind
    THEN Some(lexemes[CHOOSE i \in 1..Len(lexemes) :
                          /\ lexemes[i].k = kind
                          /\ \A j \in 1..(i - 1) : lexemes[j].k # kind].v)
    ELSE None

\* Regex::captures_iter for such a regex: the values of all of them, in order
RECURSIVE AllOf(_, _, _)
AllOf(lexemes, kind, n) ==
    IF n = 0 THEN <<>>
    ELSE AllOf(lexemes, kind, n - 1) \o
         (IF lexemes[n].k = kind THEN <<lexemes[n].v>> ELSE <<>>)

\* --([a-zA-Z0-9]+)-([A-Z])-- on one line: capture 1 of the leftmost match
boundary_re(line) ==
    Only({ IF IsSome(m) THEN Some(Unwrap(m)[1]) ELSE None :
        m \in {FirstOf(line, "boundary")} })

\* AuditLogParser::parse_timestamp: the leftmost text matching timestamp_re,
\* \[(\d{2}/[A-Za-z]{3}/\d{4}:\d{2}:\d{2}:\d{2} [+-]\d{4})\], parsed by
\* DateTime::parse_from_str(.., "%d/%b/%Y:%H:%M:%S %z") and with_timezone(&Utc):
\* %H accepts 00 to 23; the instant, in hours of the day of the log, is the
\* local hour less the offset
parse_timestamp(lexemes) ==
    Only({ IF IsSome(m) /\ Unwrap(m)[1] <= 23
           THEN Some(Unwrap(m)[1] - Unwrap(m)[2]) ELSE None :
        m \in {FirstOf(lexemes, "stamp")} })

\* the whitespace-separated pieces (\S+) of a lexeme
Tokens(lexeme) ==
    CASE lexeme.k = "word" -> <<lexeme.v>>
      [] lexeme.k = "boundary" ->
             << <<"-", "-">> \o lexeme.v[1] \o <<"-", lexeme.v[2], "-", "-">> >>
      [] lexeme.k = "stamp" -> << <<"[", "0", "1", "/", "J", "a", "n">>, <<"0", "0", "]">> >>
      [] lexeme.k = "host" ->
             IF trim(lexeme.v) = <<>> THEN << <<"H", "o", "s", "t", ":">> >>
             ELSE << <<"H", "o", "s", "t", ":">>, trim(lexeme.v) >>
      [] lexeme.k = "id" -> << <<"[", "i", "d">>, <<"\"">> \o lexeme.v \o <<"\"", "]">> >>
      [] lexeme.k = "file" ->
             << <<"[", "f", "i", "l", "e">>, <<"\"">> \o lexeme.v \o <<"\"", "]">> >>
      [] lexeme.k = "status" -> << <<"H", "T", "T", "P", "/", "1", ".", "1">>, lexeme.v >>

\* the \S+ pieces of the text after lexeme i
RECURSIVE TokensAfter(_, _, _)
TokensAfter(lexemes, i, n) ==
    IF n <= i THEN <<>>
    ELSE TokensAfter(lexemes, i, n - 1) \o Tokens(lexemes[n])

\* \[[\d/A-Za-z: +-]+\]\s+\S+\s+(\S+): the second piece after the leftmost
\* bracketed stamp that two pieces follow
client_ip_re(lexemes) ==
    LET found == {i \in 1..Len(lexemes) :
                     /\ lexemes[i].k = "stamp"
                     /\ Len(TokensAfter(lexemes, i, Len(lexemes))) >= 2}
    IN  IF found = {} THEN None
        ELSE Some(TokensAfter(lexemes,
                              CHOOSE i \in found : \A j \in found : i <= j,
                              Len(lexemes))[2])

\* AuditLogParser::create_entry; now is the value of Utc::now().  The fields
\* come from the leftmost match of host_re, (?i)Host:\s*([^\r\n]+), of
\* client_ip_re, of file_re, \[file "([^"]+)"\], and of http_status_re,
\* HTTP/\d\.\d\s+(\d{3}), and from all matches of rule_id_re, \[id "(\d+)"\]
create_entry(audit_id, raw, now) ==
    Only({ [audit_id |-> audit_id,
            timestamp |-> Only({ IF IsSome(t) THEN Unwrap(t) ELSE now :
                              t \in {parse_timestamp(lexemes)} }),
            domain |-> Only({ IF IsSome(h) THEN trim(Unwrap(h))
                              ELSE <<"u", "n", "k", "n", "o", "w", "n">> :
                           h \in {FirstOf(lexemes, "host")} }),
            rule_ids |-> AllOf(lexemes, "id", Len(lexemes)),
            client_ip |-> Only({ IF IsSome(c) THEN Unwrap(c)
                                 ELSE <<"0", ".", "0", ".", "0", ".", "0">> :
                              c \in {client_ip_re(lexemes)} }),
            http_status |-> Only({ IF IsSome(m) THEN Some(DecimalValue(Unwrap(m)))
                                   ELSE None :
                                m \in {FirstOf(lexemes, "status")} }),
            raw_content |-> raw,
            file_path |-> FirstOf(lexemes, "file")] :
        lexemes \in {Concat(raw, Len(raw))} })

\* if !accumulated_content.trim().is_empty() {
\*     if let Some(entry) = self.create_entry(..) { entries.push(entry); } }
\* the text is blank when no line of it holds a lexeme
save_entry(es, id, acc, now) ==
    IF \A i \in 1..Len(acc) : acc[i] = <<>> THEN es
    ELSE Append(es, create_entry(id, acc, now))

\* entries.iter().map(|e| e.timestamp).min().unwrap()
min_timestamp(es) ==
    CHOOSE t \in {es[i].timestamp : i \in 1..Len(es)} :
        \A i \in 1..Len(es) : t <= es[i].timestamp

\* a collection of the rule ids without the contains test
push_all(ids, n) == SubSeq(ids, 1, n)

\* if !rule_ids.contains(rule_id) { rule_ids.push(rule_id.clone()); }
\* over the first n of ids
RECURSIVE push_unique(_, _)
push_unique(ids, n) ==
    IF n = 0 THEN <<>>
    ELSE Only({ IF \E i \in 1..Len(kept) : kept[i] = ids[n] THEN kept
                ELSE Append(kept, ids[n]) :
             kept \in {push_unique(ids, n - 1)} })

\* a fold that keeps the last value present instead of the first
last_some(options) ==
    IF \E i \in 1..Len(options) : IsSome(options[i])
    THEN options[CHOOSE i \in 1..Len(options) :
                     /\ IsSome(options[i])
                     /\ \A j \in (i + 1)..Len(options) : ~IsSome(options[j])]
    ELSE None

\* if x.is_none() && entry.x.is_some() { x = entry.x.clone(); } over a
\* sequence of options
first_some(options) ==
    IF \E i \in 1..Len(options) : IsSome(options[i])
    THEN options[CHOOSE i \in 1..Len(options) :
                     /\ IsSome(options[i])
                     /\ \A j \in 1..(i - 1) : ~IsSome(options[j])]
    ELSE None

\* a from_entries that takes domain and client_ip from the last entry
from_entries_last_domain(es) ==
    [base_id |-> es[1].audit_id,
     entries |-> es,
     first_timestamp |-> min_timestamp(es),
     domain |-> es[Len(es)].domain,
     client_ip |-> es[Len(es)].client_ip,
     http_status |-> first_some([i \in 1..Len(es) |-> es[i].http_status]),
     primary_rule_ids |-> Only({ push_unique(ids, Len(ids)) :
                              ids \in {Concat([i \in 1..Len(es) |-> es[i].rule_ids], Len(es))} }),
     file_path |-> first_some([i \in 1..Len(es) |-> es[i].file_path])]

\* a from_entries that takes the timestamp of the first entry
from_entries_first_stamp(es) ==
    [base_id |-> es[1].audit_id,
     entries |-> es,
     first_timestamp |-> es[1].timestamp,
     domain |-> es[1].domain,
     client_ip |-> es[1].client_ip,
     http_status |-> first_some([i \in 1..Len(es) |-> es[i].http_status]),
     primary_rule_ids |-> Only({ push_unique(ids, Len(ids)) :
                              ids \in {Concat([i \in 1..Len(es) |-> es[i].rule_ids], Len(es))} }),
     file_path |-> first_some([i \in 1..Len(es) |-> es[i].file_path])]

\* AuditGroup::from_entries
from_entries(es) ==
    [base_id |-> es[1].audit_id,
     entries |-> es,
     first_timestamp |-> min_timestamp(es),
     domain |-> es[1].domain,
     client_ip |-> es[1].client_ip,
     http_status |-> first_some([i \in 1..Len(es) |-> es[i].http_status]),
     primary_rule_ids |-> Only({ push_unique(ids, Len(ids)) :
                              ids \in {Concat([i \in 1..Len(es) |-> es[i].rule_ids], Len(es))} }),
     file_path |-> first_some([i \in 1..Len(es) |-> es[i].file_path])]

\* a grouping whose map keeps the last entry of each audit id only
group_entries_overwrites(es) ==
    [id \in {es[i].audit_id : i \in 1..Len(es)} |->
        <<es[CHOOSE i \in 1..Len(es) :
                 /\ es[i].audit_id = id
                 /\ \A j \in (i + 1)..Len(es) : es[j].audit_id # id]>>]

\* a grouping that puts the newest entry of an audit id first
group_entries_newest_first(es) ==
    [id \in {es[i].audit_id : i \in 1..Len(es)} |->
        Only({ [i \in 1..Len(s) |-> s[Len(s) + 1 - i]] :
            s \in {SelectSeq(es, LAMBDA e : e.audit_id = id)} })]

\* groups.entry(entry.audit_id.clone()).or_insert_with(Vec::new).push(entry)
\* for every entry: the map from audit id to its entries, in scan order
group_entries(es) ==
    [id \in {es[i].audit_id : i \in 1..Len(es)} |->
        SelectSeq(es, LAMBDA e : e.audit_id = id)]

\* the orders in which HashMap::into_iter can yield the keys
IterationOrders(keys) ==
    {order \in [1..Cardinality(keys) -> keys] :
        \A i, j \in 1..Cardinality(keys) : order[i] = order[j] => i = j}

\* sort_by(|a, b| b.first_timestamp.cmp(&a.first_timestamp)) is a stable sort:
\* the first n groups sorted, each placed after those not older than it
RECURSIVE sort_by(_, _)
sort_by(groups, n) ==
    IF n = 0 THEN <<>>
    ELSE Only({ Only({ SubSeq(sorted, 1, p) \o <<groups[n]>> \o
                       SubSeq(sorted, p + 1, Len(sorted)) :
                    p \in {Cardinality({i \in 1..Len(sorted) :
                              sorted[i].first_timestamp >=
                                  groups[n].first_timestamp})} }) :
             sorted \in {sort_by(groups, n - 1)} })

(***************************************************************************)
(* f64 arithmetic of the progress fraction                                 *)
(*     0.4 + (line_num as f64 / total_lines as f64) * 0.2                  *)
(* (parser.rs:176), with IEEE 754 rounding to nearest, ties to even.       *)
(* A natural number is the sequence of its digits to the base 2^LimbBits,  *)
(* least significant first. A finite f64 >= 0 is [m |-> digits, e |->      *)
(* exponent], standing for m * 2^e, where m has MANTISSA_DIGITS bits, the  *)
(* highest of them 1; 0.0 is F64Zero.                                      *)
(***************************************************************************)
F64Zero == [m |-> [k \in 1..(((MANTISSA_DIGITS - 1) \div LimbBits) + 1) |-> 0],
            e |-> 0]

\* the digits of c + the sum of coefs[k] * 2^(LimbBits * (k - i)) over k >= i
RECURSIVE Carry(_, _, _)
Carry(coefs, i, c) ==
    IF i > Len(coefs)
    THEN IF c = 0 THEN <<>>
         ELSE <<c % (2^LimbBits)>> \o Carry(coefs, i, c \div (2^LimbBits))
    ELSE Only({ <<s % (2^LimbBits)>> \o Carry(coefs, j, s \div (2^LimbBits)) :
                    s \in {coefs[i] + c}, j \in {i + 1} })

\* the n lowest digits of the integer part of digits * 2^s
Shift(digits, s, n) ==
    LET at(k) == IF k \in 1..Len(digits) THEN digits[k] ELSE 0
        q == (IF s >= 0 THEN s ELSE 0 - s) \div LimbBits
        r == (IF s >= 0 THEN s ELSE 0 - s) % LimbBits
    IN  [k \in 1..n |->
            IF s >= 0
            THEN ((at(k - q) * (2^r)) % (2^LimbBits))
                     + (at(k - q - 1) \div (2^(LimbBits - r)))
            ELSE (at(k + q) \div (2^r))
                     + ((at(k + q + 1) % (2^r)) * (2^(LimbBits - r)))]

\* the f64 nearest to digits * 2^e
Round53(digits, e) ==
    LET bit(i) == (digits[((i - 1) \div LimbBits) + 1]
                       \div (2^((i - 1) % LimbBits))) % 2
        width == LimbBits * Len(digits)
        limbs == ((MANTISSA_DIGITS - 1) \div LimbBits) + 1
    IN  IF \A k \in 1..Len(digits) : digits[k] = 0 THEN F64Zero
        ELSE Only({
            IF n <= MANTISSA_DIGITS
            THEN [m |-> Shift(digits, MANTISSA_DIGITS - n, limbs),
                  e |-> e - (MANTISSA_DIGITS - n)]
            ELSE Only({
                IF bit(d) = 1 /\ ((kept[1] % 2) = 1 \/ \E i \in 1..(d - 1) : bit(i) = 1)
                THEN Only({
                         IF Shift(up, 0 - MANTISSA_DIGITS, 1) = <<0>>
                         THEN [m |-> Shift(up, 0, limbs), e |-> e + d]
                         ELSE [m |-> Shift(up, 0 - 1, limbs), e |-> e + d + 1] :
                         up \in {Carry(kept, 1, 1)} })
                ELSE [m |-> kept, e |-> e + d] :
                d \in {n - MANTISSA_DIGITS},
                kept \in {Shift(digits, MANTISSA_DIGITS - n, limbs)} }) :
            n \in {CHOOSE i \in 1..width :
                       bit(i) = 1 /\ \A j \in (i + 1)..width : bit(j) = 0} })

\* a as f64 / b as f64 for integers 0 <= a and 0 < b that are exact as f64;
\* also the f64 written as the decimal literal a/b (0.2 is F64Div(2, 10)).
\* The quotient is developed to QuotientLimbs digits after the point; the
\* digit below them tells whether a remainder is left.
F64Div(a, b) ==
    LET RECURSIVE Places(_, _)
        Places(r, n) ==
            IF n = 0 THEN <<IF r > 0 THEN 1 ELSE 0>>
            ELSE Only({ Places(shifted % b, k) \o <<shifted \div b>> :
                        shifted \in {r * (2^LimbBits)}, k \in {n - 1} })
    IN  Round53(Places(a % b, QuotientLimbs) \o Carry(<<a \div b>>, 1, 0),
                0 - LimbBits * (QuotientLimbs + 1))

\* x * y
F64Mul(x, y) ==
    LET RECURSIVE Column(_, _)
        \* the sum of x.m[i] * y.m[k + 1 - i] over i <= n
        Column(k, n) ==
            IF n = 0 THEN 0
            ELSE Column(k, n - 1)
                     + (IF k + 1 - n \in 1..Len(y.m)
                        THEN x.m[n] * y.m[k + 1 - n] ELSE 0)
    IN  Round53(Carry([k \in 1..(Len(x.m) + Len(y.m) - 1) |->
                          Column(k, Len(x.m))], 1, 0),
                x.e + y.e)

\* x + y
F64Add(x, y) ==
    IF x = F64Zero THEN y
    ELSE IF y = F64Zero THEN x
    ELSE LET e == IF x.e <= y.e THEN x.e ELSE y.e
             n == Len(x.m) + ((x.e + y.e - (2 * e)) \div LimbBits) + 1
         IN  Round53(Carry([k \in 1..n |-> Shift(x.m, x.e - e, n)[k]
                                             + Shift(y.m, y.e - e, n)[k]],
                           1, 0),
                     e)

\* x < y
F64Less(x, y) ==
    IF y = F64Zero THEN FALSE
    ELSE IF x = F64Zero THEN TRUE
    ELSE IF x.e # y.e THEN x.e < y.e
    ELSE \E i \in 1..Len(x.m) :
             /\ x.m[i] < y.m[i]
             /\ \A j \in (i + 1)..Len(x.m) : x.m[j] = y.m[j]

\* the chain ids of a Vec<AuditGroup>, in order
base_ids(groups) == [i \in 1..Len(groups) |-> groups[i].base_id]

(***************************************************************************)
(* Log files: up to MaxChunks pieces, each a section of a transaction or a *)
(* line outside any.                                                       *)
(***************************************************************************)
abc == <<"a", "b", "c">>
xyz == <<"x", "y", "z">>
example_com == <<"e", "x", "a", "m", "p", "l", "e", ".", "c", "o", "m">>

\* lines of a log file
Line ==
    [\* GET /
     request |-> <<Lexeme("word", <<"G", "E", "T">>), Lexeme("word", <<"/">>)>>,
     \* [01/Jan/2024:10:00:00 +0000] abc 203.0.113.10
     stamp_abc |-> <<Lexeme("stamp", <<10, 0>>), Lexeme("word", abc),
                     Lexeme("word", Addr10)>>,
     \* [01/Jan/2024:09:00:00 +0000] abc 203.0.113.200
     stamp_abc_early |-> <<Lexeme("stamp", <<9, 0>>), Lexeme("word", abc),
                           Lexeme("word", Addr200)>>,
     \* [01/Jan/2024:12:00:00 +0200] xyz 10.0.0.7
     stamp_xyz |-> <<Lexeme("stamp", <<12, 2>>), Lexeme("word", xyz),
                     Lexeme("word", AddrOther)>>,
     \* [01/Jan/2024:25:00:00 +0000] xyz ::1
     stamp_bad |-> <<Lexeme("stamp", <<25, 0>>), Lexeme("word", xyz),
                     Lexeme("word", AddrV6)>>,
     \* Host: example.com
     host |-> <<Lexeme("host", <<" ">> \o example_com)>>,
     \* HTTP/1.1 404
     status404 |-> <<Lexeme("status", <<"4", "0", "4">>)>>,
     \* HTTP/1.1 200
     status200 |-> <<Lexeme("status", <<"2", "0", "0">>)>>,
     \* [id "941"] [file "/a"] [id "942"]
     rules_a |-> <<Lexeme("id", <<"9", "4", "1">>), Lexeme("file", <<"/", "a">>),
                   Lexeme("id", <<"9", "4", "2">>)>>,
     \* [id "942"] [id "4"] [file "/b"] [id "942"]
     rules_b |-> <<Lexeme("id", <<"9", "4", "2">>), Lexeme("id", <<"4">>),
                   Lexeme("file", <<"/", "b">>), Lexeme("id", <<"9", "4", "2">>)>>,
     \* --abc-A--, --abc-B--, --abc-H--, --abc-F--, --xyz-A--, --xyz-Z--
     abc_A |-> <<Lexeme("boundary", <<abc, "A">>)>>,
     abc_B |-> <<Lexeme("boundary", <<abc, "B">>)>>,
     abc_H |-> <<Lexeme("boundary", <<abc, "H">>)>>,
     abc_F |-> <<Lexeme("boundary", <<abc, "F">>)>>,
     xyz_A |-> <<Lexeme("boundary", <<xyz, "A">>)>>,
     xyz_Z |-> <<Lexeme("boundary", <<xyz, "Z">>)>>,
     \* [01/Jan/2024:10:00:00 +0000]
     stamp_alone |-> <<Lexeme("stamp", <<10, 0>>)>>,
     blank |-> <<>>]

Chunks ==
    { <<Line.request>>,
      <<Line.abc_A, Line.stamp_abc>>,
      <<Line.abc_A, Line.stamp_abc_early, Line.status200>>,
      <<Line.abc_B, Line.request, Line.host>>,
      <<Line.abc_H, Line.rules_a>>,
      <<Line.abc_F, Line.status404, Line.rules_b>>,
      <<Line.xyz_A, Line.stamp_xyz>>,
      <<Line.xyz_Z, Line.blank, Line.stamp_bad>> }

\* the short files, and long ones of lines outside any transaction
Contents ==
    {Concat(chunks, Len(chunks)) :
        chunks \in UNION {[1..n -> Chunks] : n \in 0..MaxChunks}}
    \cup {[i \in 1..((h * PROGRESS_INTERVAL) \div 2) |-> Line.request] :
              h \in 2..MaxHalfIntervals}

\* values of Utc::now() during a parse, in hours of the day of the log
Nows == {30, 31}

\* a test that takes every boundary line for the start of a new entry
id_differs_always(id, prev_id) == IsSome(prev_id)

\* if let Some(ref prev_id) = current_id { if &id != prev_id { .. } }
id_differs(id, prev_id) == IsSome(prev_id) /\ id # Unwrap(prev_id)

\* a scan that also keeps the lines read before the first boundary line
accumulate_always(acc, line, id) == Append(acc, line)

\* else if current_id.is_some() { accumulated_content.push_str(line); .. }
accumulate(acc, line, id) == IF IsSome(id) THEN Append(acc, line) ELSE acc

\* the parser touches nothing of the session
ParseFrame ==
    /\ last_op' = "parse_log_file"
    /\ last_args' = <<>>
    /\ UNCHANGED <<app_vars, cache, panicked, last_fetch, calls, clicks, threads>>

\* terminal.draw(|f| loading.draw(f, step, .., progress, ..))? for each
\* <<step, progress>> of draws in turn: the calls of LoadingScreen::draw that
\* are made, and whether every terminal.draw returned Ok. A terminal.draw
\* that fails does so before or after it has run its closure.
draw_all(draws) ==
    {<<SubSeq(draws, 1, k), FALSE>> : k \in 0..Len(draws)} \cup {<<draws, TRUE>>}

\* a parse that reads the file only when it has announced step 2
read_draws_reads_late(readable) ==
    IF readable
    THEN << <<1, F64Div(0, 10)>>, <<1, F64Div(2, 10)>>, <<2, F64Div(2, 10)>>,
            <<2, F64Div(4, 10)>>, <<3, F64Div(4, 10)>> >>
    ELSE << <<1, F64Div(0, 10)>>, <<1, F64Div(2, 10)>>, <<2, F64Div(2, 10)>> >>

\* the draws of parse_log_file up to the call of parse_entries_with_loading:
\* step 1 at 0.0, then fs::read(..)?, then step 1 at 0.2, step 2 at 0.2 and
\* 0.4, step 3 at 0.4
read_draws(readable) ==
    IF readable
    THEN << <<1, F64Div(0, 10)>>, <<1, F64Div(2, 10)>>, <<2, F64Div(2, 10)>>,
            <<2, F64Div(4, 10)>>, <<3, F64Div(4, 10)>> >>
    ELSE << <<1, F64Div(0, 10)>> >>

\* steps 1 and 2 of parse_log_file: read the file, decode it, count its lines
ReadFile ==
    /\ ParseFrame
    /\ stage = "read"
    /\ \E readable \in BOOLEAN :
       \E drawn \in draw_all(read_draws(readable)) :
           /\ progress' = progress \o drawn[1]
           /\ stage' = IF ~drawn[2] THEN "draw_failed"
                       ELSE IF readable THEN "scan"
                       ELSE "read_failed"
    /\ UNCHANGED <<content, line_num, current_id, accumulated_content, entries,
                   result, previous_ids>>

\* one iteration of for line in content.lines() in parse_entries_with_loading
ScanLine ==
    /\ ParseFrame
    /\ stage = "scan"
    /\ line_num < Len(content)
    /\ line_num' = line_num + 1
    /\ \E drawn \in
           IF (line_num + 1) % PROGRESS_INTERVAL = 0
           THEN draw_all(<< <<3, F64Add(F64Div(4, 10),
                                        F64Mul(F64Div(line_num + 1, Len(content)),
                                               F64Div(2, 10)))>> >>)
           ELSE {<<<<>>, TRUE>>} :
         /\ progress' = progress \o drawn[1]
         /\ IF ~drawn[2]
            THEN /\ stage' = "draw_failed"
                 /\ UNCHANGED <<current_id, accumulated_content, entries>>
            ELSE /\ stage' = stage
                 /\ \E line \in {content[line_num + 1]}, now \in Nows :
                    \E caps \in {boundary_re(line)} :
                      IF IsSome(caps)
                      THEN \E differs \in {id_differs(Unwrap(caps), current_id)} :
                            /\ entries' =
                                   IF differs
                                   THEN save_entry(entries, Unwrap(current_id),
                                                   accumulated_content, now)
                                   ELSE entries
                            /\ current_id' = caps
                            /\ accumulated_content' =
                                   Append(IF differs THEN <<>>
                                          ELSE accumulated_content, line)
                      ELSE /\ accumulated_content' =
                               accumulate(accumulated_content, line, current_id)
                           /\ UNCHANGED <<current_id, entries>>
    /\ UNCHANGED <<content, result, previous_ids>>

\* the end of parse_entries_with_loading: save the last entry; then step 3 is
\* drawn at 0.6 and step 4 at 0.6
ScanEnd ==
    /\ ParseFrame
    /\ stage = "scan"
    /\ line_num = Len(content)
    /\ \E now \in Nows :
           entries' = IF IsSome(current_id)
                      THEN save_entry(entries, Unwrap(current_id),
                                      accumulated_content, now)
                      ELSE entries
    /\ \E drawn \in draw_all(<< <<3, F64Div(6, 10)>>, <<4, F64Div(6, 10)>> >>) :
           /\ progress' = progress \o drawn[1]
           /\ stage' = IF drawn[2] THEN "group" ELSE "draw_failed"
    /\ UNCHANGED <<content, line_num, current_id, accumulated_content, result,
                   previous_ids>>

\* steps 4 and 5 of parse_log_file: group the entries by audit id, draw step 4
\* at 0.8 and step 5 at 0.8, build the groups in the map's iteration order,
\* sort them, draw step 5 at 1.0 and the summary
GroupAndSort ==
    /\ ParseFrame
    /\ stage = "group"
    /\ \E drawn \in draw_all(<< <<4, F64Div(8, 10)>>, <<5, F64Div(8, 10)>>,
                                <<5, F64Div(10, 10)>> >>) :
           /\ progress' = progress \o drawn[1]
           /\ IF ~drawn[2]
              THEN stage' = "draw_failed" /\ result' = None
              ELSE /\ stage' = "done"
                   /\ \E groups \in {group_entries(entries)} :
                      \E order \in IterationOrders(DOMAIN groups) :
                      \E audit_groups_vec \in
                             {[i \in 1..Len(order) |->
                                  from_entries(groups[order[i]])]} :
                          result' = Some(sort_by(audit_groups_vec,
                                                 Len(audit_groups_vec)))
    /\ UNCHANGED <<content, line_num, current_id, accumulated_content, entries,
                   previous_ids>>

\* parse_log_file is called again on the unchanged file (App::refresh)
ParseAgain ==
    /\ ParseFrame
    /\ stage = "done"
    /\ previous_ids = None
    /\ previous_ids' = Some(base_ids(Unwrap(result)))
    /\ line_num' = 0
    /\ current_id' = None
    /\ accumulated_content' = <<>>
    /\ entries' = <<>>
    /\ stage' = "read"
    /\ result' = None
    /\ progress' = <<>>
    /\ UNCHANGED content

NextParse == ReadFile \/ ScanLine \/ ScanEnd \/ GroupAndSort \/ ParseAgain

InitParse ==
    /\ Is(new(<<>>, FALSE))
    /\ last_op = "new"
    /\ last_args = <<>>
    /\ calls = <<>>
    /\ clicks = <<>>
    /\ threads = <<>>
    /\ content \in Contents
    /\ line_num = 0
    /\ current_id = None
    /\ accumulated_content = <<>>
    /\ entries = <<>>
    /\ stage = "read"
    /\ result = None
    /\ progress = <<>>
    /\ previous_ids = None

SpecParse == InitParse /\ [][NextParse]_vars

(***************************************************************************)
(* AuditLogParser::create_entry called directly on one block, as the scan  *)
(* accumulates them: a boundary line of the id, then up to MaxBlockLines   *)
(* lines.                                                                  *)
(***************************************************************************)
\* the lines a block is made of after its boundary line
BlockLines ==
    {Line.request, Line.stamp_abc, Line.stamp_bad, Line.stamp_alone, Line.host,
     Line.status404, Line.rules_a, Line.blank}

Blocks(id) ==
    {<< <<Lexeme("boundary", <<id, "A">>)>> >> \o rest :
        rest \in UNION {[1..n -> BlockLines] : n \in 0..MaxBlockLines}}

\* self.create_entry(id, accumulated_content): the block, the id and the
\* record returned are kept in accumulated_content, current_id and entries
CallCreateEntry ==
    /\ \E id \in {abc, xyz}, now \in Nows :
       \E block \in Blocks(id) :
           /\ current_id' = Some(id)
           /\ accumulated_content' = block
           /\ entries' = <<create_entry(id, block, now)>>
    /\ last_op' = "create_entry"
    /\ last_args' = <<>>
    /\ UNCHANGED <<app_vars, cache, panicked, last_fetch, calls, clicks, threads,
                   content, line_num, stage, result, progress, previous_ids>>

SpecExtract == InitCache /\ [][CallCreateEntry]_vars

(***************************************************************************)
(* Properties.                                                             *)
(***************************************************************************)
Max(a, b) == IF a >= b THEN a ELSE b

LastIndex == Max(0, Len(filtered_groups) - 1)

\* C1: in every state of the event loop the selection satisfies
\* 0 <= selected_index < max(1, |filtered_groups|); it is 0 whenever the
\* filtered list is empty.
C1_SelectionInBounds ==
    /\ 0 <= selected_index
    /\ selected_index < Max(1, Len(filtered_groups))
    /\ (filtered_groups = <<>> => selected_index = 0)

\* a page down has taken the selection to the last of three rows
C1_Witness ==
    /\ last_op = "page_down"
    /\ Len(filtered_groups) = 3
    /\ selected_index = 2

\* C2: in every state of the event loop, scroll_offset <= selected_index.
C2_ScrollNotPastSelection == scroll_offset <= selected_index

\* C3: after page_up or page_down, selected_index and scroll_offset are each
\* within [0, max(0, |filtered_groups| - 1)].
C3_PageClampsBothCursors ==
    last_op \in {"page_up", "page_down"} =>
        /\ 0 <= selected_index /\ selected_index <= LastIndex
        /\ 0 <= scroll_offset /\ scroll_offset <= LastIndex

\* C4: filtered_groups is exactly the strictly increasing sequence of the
\* positions of audit_groups whose chain matches search_query, every position
\* below |audit_groups|; with an empty query it is 0..n-1 in order.
C4_FilterExact ==
    /\ \A i \in 1..Len(filtered_groups) :
           filtered_groups[i] \in 0..(Len(audit_groups) - 1)
    /\ \A i, j \in 1..Len(filtered_groups) :
           i < j => filtered_groups[i] < filtered_groups[j]
    /\ \A p \in 0..(Len(audit_groups) - 1) :
           (\E i \in 1..Len(filtered_groups) : filtered_groups[i] = p)
               <=> matches_search(search_query, audit_groups[p + 1])
    /\ (search_query = <<>> =>
           /\ Len(filtered_groups) = Len(audit_groups)
           /\ \A i \in 1..Len(filtered_groups) : filtered_groups[i] = i - 1)

\* a refresh has rebuilt a filter that keeps some chains and drops others
C4_Witness ==
    /\ last_op = "refresh"
    /\ search_query # <<>>
    /\ Len(filtered_groups) \in 1..2
    /\ Len(audit_groups) = 3

\* C5: every query mutation (add_search_char, remove_search_char,
\* clear_search) ends with selected_index = 0 and scroll_offset = 0, also
\* remove_search_char on an empty query.
C5_QueryMutationResets ==
    last_op \in {"add_search_char", "remove_search_char", "clear_search",
                 "search_esc"} =>
        selected_index = 0 /\ scroll_offset = 0

\* a backspace has left the query empty over a list of several rows
C5_Witness ==
    /\ last_op = "remove_search_char"
    /\ search_query = <<>>
    /\ Len(filtered_groups) = 3
    /\ selected_index = 0

\* C6: a handle_click call returns true when the previous call was on the
\* same row less than 500 ms earlier; at a gap of 500 ms or more (600 ms), or
\* on another row at any gap, it returns false; the first click returns false.
C6_DoubleClickWindow ==
    \A i \in 1..Len(clicks) :
        clicks[i].ret # "panic" =>
            /\ (i = 1 => clicks[i].ret = "false")
            /\ (i > 1 /\ clicks[i].row = clicks[i - 1].row
                      /\ clicks[i].time - clicks[i - 1].time < 500
                    => clicks[i].ret = "true")
            /\ (i > 1 /\ clicks[i].row = clicks[i - 1].row
                      /\ clicks[i].time - clicks[i - 1].time >= 500
                    => clicks[i].ret = "false")
            /\ (i > 1 /\ clicks[i].row # clicks[i - 1].row
                    => clicks[i].ret = "false")

\* three clicks on one row: the second 499 ms after the first opens the
\* detail, the third 600 ms after the second does not
C6_Witness ==
    /\ Len(clicks) = 3
    /\ clicks[1].row = clicks[2].row /\ clicks[2].row = clicks[3].row
    /\ clicks[2].time - clicks[1].time = 499 /\ clicks[2].ret = "true"
    /\ clicks[3].time - clicks[2].time = 600 /\ clicks[3].ret = "false"

IsErr(res) == res[1] = "Err"

\* C7: with one sequential caller, a key whose fetch succeeded is never
\* fetched again, so with a fetch that succeeds there is at most one external
\* fetch per key; a lookup of 203.0.113.200 after a successful lookup of
\* 203.0.113.10 performs no fetch and returns the same blob.
C7_OneFetchPerKey ==
    \A i, j \in 1..Len(calls) :
        i < j =>
            /\ (IsSome(calls[i].fetched) /\ calls[i].fetched = calls[j].fetched
                    => calls[i].outcome = "Err")
            /\ (calls[i].ip = Addr10 /\ calls[j].ip = Addr200
                    /\ ~IsErr(calls[i].ret)
                    => calls[j].fetched = None /\ calls[j].ret = calls[i].ret)

\* 203.0.113.10 was fetched, then 203.0.113.200 was answered from the cache
C7_Witness ==
    /\ Len(calls) >= 2
    /\ calls[1].ip = Addr10 /\ IsSome(calls[1].fetched) /\ ~IsErr(calls[1].ret)
    /\ calls[2].ip = Addr200 /\ calls[2].fetched = None
    /\ calls[2].ret = calls[1].ret

\* the text of ip up to and including its last dot
UpToLastDot(ip) ==
    SubSeq(ip, 1, CHOOSE p \in 1..Len(ip) :
                      ip[p] = "." /\ \A q \in (p + 1)..Len(ip) : ip[q] # ".")

\* addresses and the keys the claim gives them
KeyExamples ==
    { <<Addr10, <<"2", "0", "3", ".", "0", ".", "1", "1", "3", ".", "0">> >>,
      <<Addr200, <<"2", "0", "3", ".", "0", ".", "1", "1", "3", ".", "0">> >>,
      << <<"2", "0", "3", ".", "0", ".", "1", "1", "3", ".", "4", "4">>,
         <<"2", "0", "3", ".", "0", ".", "1", "1", "3", ".", "0">> >>,
      <<AddrOther, <<"1", "0", ".", "0", ".", "0", ".", "0">> >>,
      << <<"2", "5", "5", ".", "0", ".", "9", "9", ".", "0">>,
         <<"2", "5", "5", ".", "0", ".", "9", "9", ".", "0">> >>,
      <<AddrV6, AddrV6>>,
      <<AddrBig, AddrBig>>,
      << <<"2", "0", "0", "1", ":", "d", "b", "8", ":", ":", "1">>,
         <<"2", "0", "0", "1", ":", "d", "b", "8", ":", ":", "1">> >>,
      << <<"1", ".", "2", ".", "3">>, <<"1", ".", "2", ".", "3">> >>,
      << <<"-">>, <<"-">> >>,
      << <<>>, <<>> >> }

\* C8: the key of a parseable IPv4 address a.b.c.d is a.b.c.0, the key of any
\* other address string is the string itself, and the fetch on a miss is
\* issued with the key, not with the address.
C8_KeyDerivation ==
    /\ \A e \in KeyExamples : cache_key_of(e[1]) = e[2]
    /\ \A i \in 1..Len(calls) :
           LET ip == calls[i].ip
               key == IF IsSome(parse_ipv4(ip)) THEN UpToLastDot(ip) \o <<"0">>
                      ELSE ip
           IN  /\ IsSome(calls[i].fetched) => calls[i].fetched = Some(key)
               /\ calls[i].fetched = None => CacheHas(calls[i].before, key)
               /\ ~IsErr(calls[i].ret) => CacheHas(calls[i].after, key)

\* a miss on 203.0.113.200 was fetched as 203.0.113.0, and a miss on an
\* address that is no IPv4 address was fetched under its own text
C8_Witness ==
    \E i, j \in 1..Len(calls) :
        /\ calls[i].ip = Addr200
        /\ calls[i].fetched =
               Some(<<"2", "0", "3", ".", "0", ".", "1", "1", "3", ".", "0">>)
        /\ calls[j].ip = AddrBig
        /\ calls[j].fetched = Some(AddrBig)

\* C9: when the fetch fails on a miss, get_ip_info returns an error and
\* leaves the cache map as it was, so the next lookup of that key fetches
\* again.
C9_FailedFetchNotCached ==
    \A i \in 1..Len(calls) :
        IsSome(calls[i].fetched) /\ calls[i].outcome = "Err" =>
            /\ IsErr(calls[i].ret)
            /\ calls[i].after = calls[i].before
            /\ (IF i < Len(calls) THEN calls[i + 1].before ELSE cache)
                   = calls[i].before
            /\ (i < Len(calls)
                  /\ cache_key_of(calls[i + 1].ip) = Unwrap(calls[i].fetched)
                    => calls[i + 1].fetched = calls[i].fetched)

\* a failed fetch for 203.0.113.0 was followed by a second fetch for it
C9_Witness ==
    /\ Len(calls) >= 2
    /\ calls[1].ip = Addr10 /\ calls[1].outcome = "Err" /\ IsErr(calls[1].ret)
    /\ calls[2].ip = Addr200 /\ calls[2].fetched = calls[1].fetched
    /\ IsSome(calls[2].fetched)

LastFetchFailed == IsSome(last_fetch) /\ Unwrap(last_fetch)[2] = "Err"

\* C10: a failed enrichment lookup on entering the detail view, or on Left or
\* Right inside it, does not end the session: the view is DetailView,
\* detail_scroll is 0, current_ip_info is None, should_quit is false and the
\* process has not aborted.
C10_LookupFailureAbsorbed ==
    LastFetchFailed =>
        /\ last_op \in {"show_detail_view", "detail_left", "detail_right",
                        "mouse_down"}
        /\ current_view = "DetailView"
        /\ detail_scroll = 0
        /\ current_ip_info = None
        /\ ~should_quit
        /\ ~panicked

\* the lookup failed on Right, after an earlier lookup had succeeded
C10_Witness ==
    /\ last_op = "detail_right"
    /\ LastFetchFailed
    /\ cache # {}
    /\ current_ip_info = None

(***************************************************************************)
(* Threads sharing one cache.                                              *)
(***************************************************************************)
\* two distinct threads that looked up the same key and have both returned
BothReturned(t1, t2) ==
    /\ t1 # t2
    /\ threads[t1].pc = "done"
    /\ threads[t2].pc = "done"
    /\ threads[t1].cache_key = threads[t2].cache_key

ReturnedBlob(t) == threads[t].ret # None /\ ~IsErr(Unwrap(threads[t].ret))

EntriesFor(k) == {e \in cache : e[1] = k}

\* C11 as stated: when two threads have looked up the same key, uncached at
\* the start, both have returned a blob and the cache holds exactly one entry
\* for the key
C11_BothReturnBlob ==
    \A t1, t2 \in Threads :
        BothReturned(t1, t2) =>
            /\ ReturnedBlob(t1)
            /\ ReturnedBlob(t2)
            /\ Cardinality(EntriesFor(threads[t1].cache_key)) = 1

\* C11, amended: when two threads have looked up the same key, uncached at the
\* start, a thread returns an error only if its own request failed, every
\* other thread returns a blob, and the cache holds exactly one entry for the
\* key if some thread returned a blob and none if both requests failed
C11_ConcurrentLookups ==
    \A t1, t2 \in Threads :
        BothReturned(t1, t2) =>
            /\ \A t \in {t1, t2} :
                   IF threads[t].outcome = "Err" THEN ~ReturnedBlob(t)
                   ELSE ReturnedBlob(t)
            /\ Cardinality(EntriesFor(threads[t1].cache_key)) =
                   IF ReturnedBlob(t1) \/ ReturnedBlob(t2) THEN 1 ELSE 0

\* both threads sent a request for the same key, both requests succeeded
\* with different answers, and both have returned
C11_Witness ==
    /\ BothReturned(1, 2)
    /\ threads[1].ip = Addr10
    /\ threads[2].ip = Addr200
    /\ threads[1].outcome = "Ok"
    /\ threads[2].outcome = "Ok"
    /\ threads[1].ret # threads[2].ret
    /\ Cardinality(EntriesFor(threads[1].cache_key)) = 1

\* C12: with one sequential caller, an entry of the cache is never changed and
\* never removed by a later get_ip_info call
C12_WriteOnce == [][\A e \in cache : e \in cache']_vars

\* an entry stored by the first call is still in the cache after a hit on
\* its key and a failed fetch for another key
C12_Witness ==
    /\ Len(calls) = 3
    /\ calls[1].ip = Addr10
    /\ calls[1].fetched # None
    /\ calls[1].outcome = "Ok"
    /\ calls[2].ip = Addr200
    /\ calls[2].fetched = None
    /\ calls[3].ip = AddrOther
    /\ calls[3].outcome = "Err"
    /\ calls[3].fetched # None
    /\ calls[1].after = cache
    /\ cache # {}

(***************************************************************************)
(* The parser.                                                             *)
(***************************************************************************)
Done == stage = "done"
Chains == Unwrap(result)

\* the places <<chain, position>> of the assembled chains that hold record e
PlacesOf(e) ==
    {pl \in (1..Len(Chains)) \X (1..Len(entries)) :
        /\ pl[2] <= Len(Chains[pl[1]].entries)
        /\ Chains[pl[1]].entries[pl[2]] = e}

\* C13: the chains partition the records of the scan: a record occurs in the
\* chains as often as in the scan and in one chain only, the chains hold
\* nothing else, every record of a chain
\* has the chain's id, no chain is empty, no two chains share an id
C13_Partition ==
    Done =>
        /\ \A i \in 1..Len(entries) :
               /\ Cardinality(PlacesOf(entries[i])) =
                      Cardinality({j \in 1..Len(entries) : entries[j] = entries[i]})
               /\ \A p1, p2 \in PlacesOf(entries[i]) : p1[1] = p2[1]
        /\ \A c \in 1..Len(Chains) :
               /\ Len(Chains[c].entries) >= 1
               /\ \A j \in 1..Len(Chains[c].entries) :
                      /\ Chains[c].entries[j].audit_id = Chains[c].base_id
                      /\ \E i \in 1..Len(entries) : entries[i] = Chains[c].entries[j]
        /\ \A c1, c2 \in 1..Len(Chains) :
               Chains[c1].base_id = Chains[c2].base_id => c1 = c2

\* three records, abc, xyz, abc, assembled into a chain of two and a chain of one
C13_Witness ==
    /\ Done
    /\ Len(entries) = 3
    /\ entries[1].audit_id = abc
    /\ entries[2].audit_id = xyz
    /\ entries[3].audit_id = abc
    /\ entries[1] # entries[3]
    /\ Len(Chains) = 2
    /\ \E c \in 1..2 : Chains[c].entries = <<entries[1], entries[3]>>

\* the tokens of the boundary lines among the first n lines, in order
BoundaryTokens(lines, n) ==
    LET at == {i \in 1..n : \E l \in 1..Len(lines[i]) : lines[i][l].k = "boundary"}
        nth(k) == CHOOSE i \in at : Cardinality({j \in at : j <= i}) = k
    IN  [k \in 1..Cardinality(at) |-> Unwrap(boundary_re(lines[nth(k)]))]

\* the positions at which a run of equal tokens starts
RunStarts(tokens) ==
    {i \in 1..Len(tokens) : i = 1 \/ tokens[i] # tokens[i - 1]}

\* C14: when the scan is over there is one record per maximal run of boundary
\* lines with the same token, in the order of the runs and under the run's
\* token: 1 + the number of token changes, and none without a boundary line
C14_Segmentation ==
    stage \in {"group", "done"} =>
        \A tokens \in {BoundaryTokens(content, Len(content))} :
            /\ Len(entries) = Cardinality(RunStarts(tokens))
            /\ Len(entries) =
                   IF Len(tokens) = 0 THEN 0
                   ELSE 1 + Cardinality({i \in 2..Len(tokens) :
                                            tokens[i] # tokens[i - 1]})
            /\ \A i \in RunStarts(tokens) :
                   entries[Cardinality({j \in RunStarts(tokens) : j <= i})].audit_id
                       = tokens[i]

\* boundary lines abc, abc, xyz give two records
C14_Witness ==
    /\ stage = "group"
    /\ BoundaryTokens(content, Len(content)) = <<abc, abc, xyz>>
    /\ Len(entries) = 2

IsBoundaryLine(line) == \E l \in 1..Len(line) : line[l].k = "boundary"

\* the lines of the file from its first boundary line on
FromFirstBoundary(lines) ==
    IF \E i \in 1..Len(lines) : IsBoundaryLine(lines[i])
    THEN SubSeq(lines,
                CHOOSE i \in 1..Len(lines) :
                    /\ IsBoundaryLine(lines[i])
                    /\ \A j \in 1..(i - 1) : ~IsBoundaryLine(lines[j]),
                Len(lines))
    ELSE <<>>

\* C15: when the scan is over the raw texts of the records are, together, the
\* lines of the file from its first boundary line on, so the lines before it
\* are in no record; every raw text has a lexeme and begins with a boundary
\* line whose token is the record's id
C15_RawText ==
    stage \in {"group", "done"} =>
        /\ Concat([i \in 1..Len(entries) |-> entries[i].raw_content], Len(entries))
               = FromFirstBoundary(content)
        /\ \A i \in 1..Len(entries) :
               /\ \E l \in 1..Len(entries[i].raw_content) :
                      entries[i].raw_content[l] # <<>>
               /\ IsBoundaryLine(entries[i].raw_content[1])
               /\ boundary_re(entries[i].raw_content[1]) = Some(entries[i].audit_id)

\* a file that begins with a line outside any block and holds a blank line
\* inside a block
C15_Witness ==
    /\ stage = "group"
    /\ content # <<>>
    /\ content[1] = Line.request
    /\ Len(entries) = 2
    /\ \E l \in 1..Len(entries[2].raw_content) : entries[2].raw_content[l] = <<>>
    /\ entries[1].raw_content[1] # Line.request

\* the record's block holds a Host header, and its first one is example.com
HasHost(e) == \E l \in 1..Len(e.raw_content) :
                  \E x \in 1..Len(e.raw_content[l]) : e.raw_content[l][x].k = "host"

HostIsExample(e) ==
    FirstOf(Concat(e.raw_content, Len(e.raw_content)), "host")
        = Some(<<" ">> \o example_com)

RecordsOf(id) == {i \in 1..Len(entries) : entries[i].audit_id = id}

\* two chains, abc with domain example.com and xyz with domain unknown
TwoChainsExampleUnknown ==
    /\ Len(Chains) = 2
    /\ \E c \in 1..2 : Chains[c].base_id = abc /\ Chains[c].domain = example_com
    /\ \E c \in 1..2 :
           /\ Chains[c].base_id = xyz
           /\ Chains[c].domain = <<"u", "n", "k", "n", "o", "w", "n">>

\* C16 as stated: blocks abc and xyz in any order, a Host: example.com header
\* in some abc block and none in an xyz block, give two chains, abc with
\* domain example.com and xyz with domain unknown
C16_SomeBlockHost ==
    (/\ Done
     /\ RecordsOf(abc) # {}
     /\ RecordsOf(xyz) # {}
     /\ \E i \in RecordsOf(abc) : HostIsExample(entries[i])
     /\ \A i \in RecordsOf(xyz) : ~HasHost(entries[i]))
        => TwoChainsExampleUnknown

\* C16, amended: blocks abc and xyz in any order, a Host: example.com header
\* in the first abc block of the file and none in an xyz block, give two
\* chains, abc with domain example.com and xyz with domain unknown
C16_FirstBlockHost ==
    (/\ Done
     /\ RecordsOf(abc) # {}
     /\ RecordsOf(xyz) # {}
     /\ \E i \in RecordsOf(abc) :
            /\ \A j \in RecordsOf(abc) : i <= j
            /\ HostIsExample(entries[i])
     /\ \A i \in RecordsOf(xyz) : ~HasHost(entries[i]))
        => TwoChainsExampleUnknown

\* abc with the header, xyz, abc without it: interleaved blocks, two chains
C16_Witness ==
    /\ Done
    /\ Len(entries) = 3
    /\ RecordsOf(abc) = {1, 3}
    /\ RecordsOf(xyz) = {2}
    /\ HostIsExample(entries[1])
    /\ ~HasHost(entries[3])
    /\ TwoChainsExampleUnknown

\* the rule ids of the records of a chain in the order the file holds them
SeenIds(chain) ==
    [p \in UNION {{<<e, r>> : r \in 1..Len(chain.entries[e].rule_ids)} :
                     e \in 1..Len(chain.entries)} |->
        chain.entries[p[1]].rule_ids[p[2]]]

Earlier(p, q) == p[1] < q[1] \/ (p[1] = q[1] /\ p[2] < q[2])

\* the place at which a rule id is first seen in a chain
FirstSeen(chain, id) ==
    CHOOSE p \in DOMAIN SeenIds(chain) :
        /\ SeenIds(chain)[p] = id
        /\ \A q \in DOMAIN SeenIds(chain) :
               SeenIds(chain)[q] = id => (p = q \/ Earlier(p, q))

\* C17: the rule ids of a chain hold no value twice, hold exactly the rule
\* ids of its records, and are in the order in which the records, and the
\* text of each record, first show them
C17_RuleIds ==
    Done =>
        \A c \in 1..Len(Chains) :
            \A chain \in {Chains[c]} :
            \A ids \in {chain.primary_rule_ids} :
                /\ \A i, j \in 1..Len(ids) : ids[i] = ids[j] => i = j
                /\ {ids[i] : i \in 1..Len(ids)} =
                       {SeenIds(chain)[p] : p \in DOMAIN SeenIds(chain)}
                /\ \A i, j \in 1..Len(ids) :
                       i < j => Earlier(FirstSeen(chain, ids[i]),
                                        FirstSeen(chain, ids[j]))

\* a chain of two records with rule ids 941, 942 and 942, 4, 942
C17_Witness ==
    /\ Done
    /\ \E c \in 1..Len(Chains) :
           /\ Len(Chains[c].entries) = 2
           /\ Chains[c].entries[1].rule_ids =
                  << <<"9", "4", "1">>, <<"9", "4", "2">> >>
           /\ Chains[c].entries[2].rule_ids =
                  << <<"9", "4", "2">>, <<"4">>, <<"9", "4", "2">> >>
           /\ Chains[c].primary_rule_ids =
                  << <<"9", "4", "1">>, <<"9", "4", "2">>, <<"4">> >>

\* C18: the http_status of a chain is that of its first record that has one,
\* and None exactly when no record has one; likewise its file_path
C18_FirstStatusAndFile ==
    Done =>
        \A c \in 1..Len(Chains) :
            \A chain \in {Chains[c]} :
                /\ \/ /\ \A i \in 1..Len(chain.entries) :
                             chain.entries[i].http_status = None
                      /\ chain.http_status = None
                   \/ \E i \in 1..Len(chain.entries) :
                          /\ chain.entries[i].http_status # None
                          /\ \A j \in 1..(i - 1) : chain.entries[j].http_status = None
                          /\ chain.http_status = chain.entries[i].http_status
                /\ \/ /\ \A i \in 1..Len(chain.entries) :
                             chain.entries[i].file_path = None
                      /\ chain.file_path = None
                   \/ \E i \in 1..Len(chain.entries) :
                          /\ chain.entries[i].file_path # None
                          /\ \A j \in 1..(i - 1) : chain.entries[j].file_path = None
                          /\ chain.file_path = chain.entries[i].file_path

\* a chain of two records, the first with status 200 and no file, the second
\* with status 404 and file /b
C18_Witness ==
    /\ Done
    /\ \E c \in 1..Len(Chains) :
           /\ Len(Chains[c].entries) = 2
           /\ Chains[c].entries[1].http_status = Some(200)
           /\ Chains[c].entries[1].file_path = None
           /\ Chains[c].entries[2].http_status = Some(404)
           /\ Chains[c].http_status = Some(200)
           /\ Chains[c].file_path = Some(<<"/", "b">>)

\* C19: the chains are in non-increasing order of first_timestamp, and the
\* first_timestamp of a chain is the least timestamp of its records
C19_SortedByFirstTimestamp ==
    Done =>
        /\ \A c \in 1..(Len(Chains) - 1) :
               Chains[c].first_timestamp >= Chains[c + 1].first_timestamp
        /\ \A c \in 1..Len(Chains) :
               /\ \A i \in 1..Len(Chains[c].entries) :
                      Chains[c].first_timestamp <= Chains[c].entries[i].timestamp
               /\ \E i \in 1..Len(Chains[c].entries) :
                      Chains[c].first_timestamp = Chains[c].entries[i].timestamp

\* records abc at 10, xyz at 10, abc at 9: the abc chain has first_timestamp
\* 9 and comes after the xyz chain
C19_Witness ==
    /\ Done
    /\ Len(entries) = 3
    /\ entries[1].timestamp = 10
    /\ entries[2].timestamp = 10
    /\ entries[3].timestamp = 9
    /\ base_ids(Chains) = <<xyz, abc>>
    /\ Chains[2].first_timestamp = 9

\* every record of the scan has a timestamp that parses
AllTimestampsParse ==
    \A i \in 1..Len(entries) :
        IsSome(parse_timestamp(Concat(entries[i].raw_content,
                                      Len(entries[i].raw_content))))

\* C20: a second parse of the unchanged file, all timestamps parseable,
\* returns the chains in the order of the first parse
C20_StableOrder ==
    (Done /\ previous_ids # None /\ AllTimestampsParse)
        => base_ids(Chains) = Unwrap(previous_ids)

(***************************************************************************)
(* Navigation state: refresh, movement, search, views.                     *)
(***************************************************************************)
\* C21: a refresh that succeeds replaces the chain list, rebuilds the
\* filtered list from the unchanged query, and sets selected_index and
\* scroll_offset to the minimum of their previous value and
\* max(0, |filtered_groups| - 1); search_query, search_mode and current_view
\* are unchanged.
C21_RefreshClamps ==
    [][last_op' = "refresh" =>
          /\ audit_groups' \in Logs
          /\ filtered_groups' =
                 FilterPositions(audit_groups', search_query, Len(audit_groups'))
          /\ selected_index' =
                 Min(selected_index, Max(0, Len(filtered_groups') - 1))
          /\ scroll_offset' =
                 Min(scroll_offset, Max(0, Len(filtered_groups') - 1))
          /\ search_query' = search_query
          /\ search_mode' = search_mode
          /\ current_view' = current_view]_vars

\* a refresh has kept the selection on the third row and has brought the
\* scroll offset back from beyond the list to the last row
C21_Witness ==
    /\ last_op = "refresh"
    /\ Len(filtered_groups) = 3
    /\ selected_index = 2
    /\ scroll_offset = 2

\* C23: for a viewport of at least one row, move_selection_up from a row
\* other than the first takes the selection one row up and sets scroll_offset
\* to the selection if the selection is now below it, and
\* move_selection_down from a row other than the last takes the selection one
\* row down and, if it is now at or beyond the old scroll_offset plus the
\* viewport height, sets scroll_offset to selection - (height - 1); otherwise
\* scroll_offset is unchanged; at the first row a move up and at the last row
\* a move down change nothing.
C23_ScrollSnapping ==
    [][/\ last_op' = "move_selection_up" =>
              IF selected_index = 0
              THEN selected_index' = 0 /\ scroll_offset' = scroll_offset
              ELSE /\ selected_index' = selected_index - 1
                   /\ scroll_offset' = IF selected_index' < scroll_offset
                                       THEN selected_index'
                                       ELSE scroll_offset
       /\ last_op' = "move_selection_down" =>
              IF selected_index >= Len(filtered_groups) - 1
              THEN /\ selected_index' = selected_index
                   /\ scroll_offset' = scroll_offset
              ELSE /\ selected_index' = selected_index + 1
                   /\ scroll_offset' =
                          IF selected_index' >= scroll_offset + last_args'[1]
                          THEN selected_index' - (last_args'[1] - 1)
                          ELSE scroll_offset]_vars

\* a move down in a viewport of two rows has made the fourth row the last
\* visible one
C23_Witness ==
    /\ last_op = "move_selection_down"
    /\ last_args = <<2>>
    /\ selected_index = 3
    /\ scroll_offset = 2

\* the query's token and value: the lower-cased, trimmed texts left and right
\* of its first colon
TokenOf(q) == to_lowercase(trim(Unwrap(split_once(q))[1]))
ValueOf(q) == to_lowercase(trim(Unwrap(split_once(q))[2]))

FieldTokens ==
    { <<"d", "o", "m", "a", "i", "n">>, <<"i", "p">>, <<"r", "u", "l", "e">>,
      <<"r", "u", "l", "e", "i", "d">>, <<"i", "d">>,
      <<"a", "u", "d", "i", "t", "i", "d">>, <<"s", "t", "a", "t", "u", "s">>,
      <<"h", "t", "t", "p">> }

HasFieldToken(q) == IsSome(split_once(q)) /\ TokenOf(q) \in FieldTokens

\* text is contained in field, letters compared without regard to case
ContainsNoCase(field, text) == contains(to_lowercase(field), to_lowercase(text))

\* the field named by token contains text
FieldContains(token, group, text) ==
    CASE token = <<"d", "o", "m", "a", "i", "n">> ->
             ContainsNoCase(group.domain, text)
      [] token = <<"i", "p">> ->
             ContainsNoCase(group.client_ip, text)
      [] token \in { <<"r", "u", "l", "e">>, <<"r", "u", "l", "e", "i", "d">>,
                     <<"i", "d">> } ->
             \E i \in 1..Len(group.primary_rule_ids) :
                 ContainsNoCase(group.primary_rule_ids[i], text)
      [] token = <<"a", "u", "d", "i", "t", "i", "d">> ->
             ContainsNoCase(group.base_id, text)
      [] token \in { <<"s", "t", "a", "t", "u", "s">>, <<"h", "t", "t", "p">> } ->
             /\ IsSome(group.http_status)
             /\ ContainsNoCase(to_string(Unwrap(group.http_status)), text)

\* the chain at 0-based position p is listed in filtered_groups
Listed(p) == \E i \in 1..Len(filtered_groups) : filtered_groups[i] = p

\* C24: when the query is token:value with one of the field tokens, a chain
\* is listed iff the field named by the token contains the trimmed value,
\* letters compared without regard to case (the status as its decimal
\* string); a chain without a status is never listed for status or http.
C24_TokenQueries ==
    HasFieldToken(search_query) =>
        \A p \in 0..(Len(audit_groups) - 1) :
            Listed(p) <=> FieldContains(TokenOf(search_query),
                                        audit_groups[p + 1],
                                        ValueOf(search_query))

\* some field of the chain contains text
AnyFieldContains(group, text) ==
    \/ ContainsNoCase(group.domain, text)
    \/ ContainsNoCase(group.client_ip, text)
    \/ ContainsNoCase(group.base_id, text)
    \/ \E i \in 1..Len(group.primary_rule_ids) :
           ContainsNoCase(group.primary_rule_ids[i], text)
    \/ /\ IsSome(group.http_status)
       /\ ContainsNoCase(to_string(Unwrap(group.http_status)), text)

\* C25: when the query has no colon or its token is not a field token, a
\* chain is listed iff the trimmed, lower-cased query is contained in its
\* domain, client address, base id, one of its rule ids or the decimal
\* string of its status; a query that is empty after trimming lists every
\* chain.
C25_FreeTextQueries ==
    ~HasFieldToken(search_query) =>
        /\ \A p \in 0..(Len(audit_groups) - 1) :
               Listed(p) <=> AnyFieldContains(audit_groups[p + 1],
                                              to_lowercase(trim(search_query)))
        /\ (trim(search_query) = <<>> =>
               filtered_groups = Range0(Len(audit_groups)))

\* C26: in every state of the event loop, search_mode implies that the view
\* is TableView: the detail view is not entered, by key or by click, while
\* the search box is open.
C26_SearchOnlyInTable == search_mode => current_view = "TableView"

\* the search box is open with a query typed into it
C26_Witness ==
    /\ search_mode
    /\ last_op = "add_search_char"
    /\ search_query # <<>>
    /\ current_view = "TableView"

\* C27: show_detail_view sets the view to DetailView and detail_scroll to 0
\* and leaves selected_index, scroll_offset, search_query and
\* filtered_groups unchanged; show_table_view sets the view to TableView and
\* leaves these and current_ip_info unchanged.
C27_ViewToggleFrame ==
    [][/\ last_op' = "show_detail_view" =>
              /\ current_view' = "DetailView"
              /\ detail_scroll' = 0
              /\ UNCHANGED <<selected_index, scroll_offset, search_query,
                             filtered_groups>>
       /\ last_op' = "show_table_view" =>
              /\ current_view' = "TableView"
              /\ UNCHANGED <<selected_index, scroll_offset, search_query,
                             filtered_groups, current_ip_info>>]_vars

\* the detail view of the second row was left with its enrichment result
\* kept, after the detail had been scrolled to its end
C27_Witness ==
    /\ last_op = "show_table_view"
    /\ current_view = "TableView"
    /\ IsSome(current_ip_info)
    /\ selected_index = 1
    /\ detail_scroll = USIZE_MAX

\* C28: scroll_detail_up and page_detail_up take detail_scroll d to
\* max(0, d - 1) and max(0, d - page), never below 0; scroll_detail_down and
\* page_detail_down take d to d + 1 and d + page.
C28_DetailScrollArithmetic ==
    [][/\ last_op' = "scroll_detail_up" =>
              detail_scroll' = Max(0, detail_scroll - 1)
       /\ last_op' = "page_detail_up" =>
              detail_scroll' = Max(0, detail_scroll - PAGE_SIZE)
       /\ last_op' = "scroll_detail_down" =>
              detail_scroll' = detail_scroll + 1
       /\ last_op' = "page_detail_down" =>
              detail_scroll' = detail_scroll + PAGE_SIZE]_vars

\* C30: after App::new the view is TableView, the search box is closed, the
\* query is empty, selected_index, scroll_offset and detail_scroll are 0, no
\* click and no enrichment result is recorded, and filtered_groups is
\* 0..n-1 over the n loaded chains.
C30_InitialState ==
    last_op = "new" =>
        /\ current_view = "TableView"
        /\ ~search_mode
        /\ search_query = <<>>
        /\ selected_index = 0
        /\ scroll_offset = 0
        /\ detail_scroll = 0
        /\ last_click_time = None
        /\ last_click_row = None
        /\ current_ip_info = None
        /\ ~should_quit
        /\ Len(filtered_groups) = Len(audit_groups)
        /\ \A i \in 1..Len(filtered_groups) : filtered_groups[i] = i - 1

\* three chains have been loaded and no event has been handled yet
C30_Witness ==
    /\ last_op = "new"
    /\ Len(audit_groups) = 3
    /\ filtered_groups = <<0, 1, 2>>

(***************************************************************************)
(* Loading: the file that cannot be read, and the progress reported.      *)
(***************************************************************************)

\* C22: when fs::read fails, parse_log_file returns an error and no groups,
\* no entry has been built, and LoadingScreen::draw has been called for
\* step 1 only: no step of grouping (4) or sorting (5) is reported.
C22_ReadFailure ==
    stage = "read_failed" =>
        /\ result = None
        /\ entries = <<>>
        /\ Len(progress) = 1
        /\ \A i \in 1..Len(progress) : progress[i][1] = 1

C22_Witness ==
    /\ stage = "read_failed"
    /\ progress = << <<1, F64Zero>> >>

\* the steps and the fractions of the calls of LoadingScreen::draw
Steps == [i \in 1..Len(progress) |-> progress[i][1]]

Fractions == [i \in 1..Len(progress) |-> progress[i][2]]

\* C29: in a parse that succeeds the reported steps are non-decreasing and
\* cover 1..5, every fraction lies in [0, 1], the fractions are
\* non-decreasing, the progress reports of every 1000 lines included, and
\* the last report is step 5 at 1.0.
C29_ProgressOrder ==
    Done =>
        /\ \A i \in 1..(Len(progress) - 1) : Steps[i] <= Steps[i + 1]
        /\ {Steps[i] : i \in 1..Len(progress)} = 1..5
        /\ \A i \in 1..Len(progress) :
               /\ ~F64Less(Fractions[i], F64Zero)
               /\ ~F64Less(F64Div(10, 10), Fractions[i])
        /\ \A i \in 1..(Len(progress) - 1) :
               ~F64Less(Fractions[i + 1], Fractions[i])
        /\ progress[Len(progress)] = <<5, F64Div(10, 10)>>

\* the same with the fractions of step 3 left unordered: what the code keeps
C29_StepsOrder ==
    Done =>
        /\ \A i \in 1..(Len(progress) - 1) : Steps[i] <= Steps[i + 1]
        /\ {Steps[i] : i \in 1..Len(progress)} = 1..5
        /\ \A i \in 1..Len(progress) :
               /\ ~F64Less(Fractions[i], F64Zero)
               /\ ~F64Less(F64Div(10, 10), Fractions[i])
        /\ progress[Len(progress)] = <<5, F64Div(10, 10)>>

(***************************************************************************)
(* Extraction, grouping, clicks, viewport, quitting.                       *)
(***************************************************************************)
\* the block holds a text of the kind, and a line of the form
\* [timestamp] token token
HasLexeme(block, kind) ==
    \E l \in 1..Len(block) : \E x \in 1..Len(block[l]) : block[l][x].k = kind

HasStructuredLine(block) ==
    \E l \in 1..Len(block) : \E x \in 1..Len(block[l]) :
        /\ block[l][x].k = "stamp"
        /\ Len(TokensAfter(block[l], x, Len(block[l]))) >= 2

\* C31: create_entry returns exactly one record for every block and id; its
\* audit_id is the id and its raw_content the block; a block without a Host
\* header has domain "unknown", a block without a line of the form
\* [timestamp] token token has client_ip "0.0.0.0", a block without a status
\* has http_status None, a block without a file marker has file_path None.
C31_ExtractorDefaults ==
    last_op = "create_entry" =>
        /\ Len(entries) = 1
        /\ \A e \in {entries[1]}, block \in {accumulated_content} :
            /\ e.audit_id = Unwrap(current_id)
            /\ e.raw_content = block
            /\ (~HasLexeme(block, "host") =>
                    e.domain = <<"u", "n", "k", "n", "o", "w", "n">>)
            /\ (~HasStructuredLine(block) =>
                    e.client_ip = <<"0", ".", "0", ".", "0", ".", "0">>)
            /\ (~HasLexeme(block, "status") => e.http_status = None)
            /\ (~HasLexeme(block, "file") => e.file_path = None)

\* the same, for blocks in which two tokens follow every bracketed stamp on
\* its line
C31_DefaultsOnWholeLines ==
    (/\ last_op = "create_entry"
     /\ \A l \in 1..Len(accumulated_content) :
        \A x \in 1..Len(accumulated_content[l]) :
            accumulated_content[l][x].k = "stamp" =>
                Len(TokensAfter(accumulated_content[l], x,
                                Len(accumulated_content[l]))) >= 2) =>
        /\ Len(entries) = 1
        /\ \A e \in {entries[1]}, block \in {accumulated_content} :
            /\ e.audit_id = Unwrap(current_id)
            /\ e.raw_content = block
            /\ (~HasLexeme(block, "host") =>
                    e.domain = <<"u", "n", "k", "n", "o", "w", "n">>)
            /\ (~HasStructuredLine(block) =>
                    e.client_ip = <<"0", ".", "0", ".", "0", ".", "0">>)
            /\ (~HasLexeme(block, "status") => e.http_status = None)
            /\ (~HasLexeme(block, "file") => e.file_path = None)

\* C32: the domain and the client_ip of a chain are those of the first record
\* of its sequence, and the sequence is the records of the scan with the
\* chain's id in the order of the scan.
C32_FirstRecordAndScanOrder ==
    Done =>
        \A c \in 1..Len(Chains) :
            /\ Chains[c].domain = Chains[c].entries[1].domain
            /\ Chains[c].client_ip = Chains[c].entries[1].client_ip
            /\ \E at \in [1..Len(Chains[c].entries) -> 1..Len(entries)] :
                   /\ \A i, j \in DOMAIN at : i < j => at[i] < at[j]
                   /\ \A i \in DOMAIN at : entries[at[i]] = Chains[c].entries[i]
                   /\ {at[i] : i \in DOMAIN at} = RecordsOf(Chains[c].base_id)

\* records abc, xyz, abc: the chain abc holds the first and the third in that
\* order and has the client address of the first, not that of the third
C32_Witness ==
    /\ Done
    /\ Len(entries) = 3
    /\ RecordsOf(abc) = {1, 3}
    /\ entries[1].client_ip = Addr10
    /\ entries[3].client_ip = Addr200
    /\ \E c \in 1..Len(Chains) :
           /\ Chains[c].entries = <<entries[1], entries[3]>>
           /\ Chains[c].client_ip = Addr10

\* C33: a handle_click call returns true exactly when a click is recorded on
\* the same row less than 500 ms earlier; whatever it returns it sets
\* selected_index to row, snaps scroll_offset (to row when row is above the
\* viewport, to row - (h - 1) when row is at or below its end, h >= 1) and
\* records its own time and row; so in a chain of clicks on one row, each less
\* than 500 ms after the previous one, every click after the first returns true.
C33_ClickAlwaysRecorded ==
    /\ [][(last_op' = "handle_click" /\ last_args'[2] >= 1) =>
            \A c \in {clicks'[Len(clicks')]}, row \in {last_args'[1]},
               h \in {last_args'[2]} :
                /\ c.row = row
                /\ c.ret = IF /\ IsSome(last_click_time)
                              /\ last_click_row = Some(row)
                              /\ c.time - Unwrap(last_click_time) < 500
                           THEN "true" ELSE "false"
                /\ selected_index' = row
                /\ scroll_offset' = IF row < scroll_offset THEN row
                                    ELSE IF row >= scroll_offset + h
                                    THEN row - (h - 1)
                                    ELSE scroll_offset
                /\ last_click_time' = Some(c.time)
                /\ last_click_row' = Some(row)]_vars
    /\ [](\A i \in 2..Len(clicks) :
            (/\ \A j \in 1..i : clicks[j].ret # "panic"
             /\ \A j \in 2..i : /\ clicks[j].row = clicks[1].row
                                /\ clicks[j].time - clicks[j - 1].time < 500)
                => clicks[i].ret = "true")

\* three clicks on the third row, 499 ms apart, in a viewport of two rows:
\* the second and the third return true, the row is selected and is the last
\* visible one
C33_Witness ==
    /\ Len(clicks) = 3
    /\ \A i \in 1..3 : clicks[i].row = 2
    /\ clicks[2].time - clicks[1].time = 499 /\ clicks[2].ret = "true"
    /\ clicks[3].time - clicks[2].time = 499 /\ clicks[3].ret = "true"
    /\ last_args = <<2, 2>>
    /\ selected_index = 2
    /\ scroll_offset = 1
    /\ last_click_row = Some(2)

\* C34: with the one viewport height VISIBLE_HEIGHT used by every operation,
\* the selected row is inside the viewport in every state of the event loop:
\* scroll_offset <= selected_index < scroll_offset + VISIBLE_HEIGHT.
C34_SelectionInViewport ==
    /\ scroll_offset <= selected_index
    /\ selected_index < scroll_offset + VISIBLE_HEIGHT

\* C35: no detail-view operation overflows detail_scroll: scroll_detail_down
\* and page_detail_down, also after scroll_detail_end has stored usize::MAX,
\* neither abort nor leave detail_scroll smaller than it was.
C35_NoDetailScrollOverflow ==
    [][last_op' \in {"scroll_detail_down", "page_detail_down"} =>
           /\ ~panicked'
           /\ detail_scroll' > detail_scroll]_vars

\* C36: in the detail view, with enrichment enabled and a chain selected,
\* current_ip_info is None or the cache entry stored under the cache key of
\* the selected chain's client address, after entering the view and after
\* every Left and Right inside it.
C36_InfoOfSelectedChain ==
    (/\ current_view = "DetailView"
     /\ ip_api_enabled
     /\ IsSome(selected_group(App))) =>
        \A key \in {cache_key_of(Unwrap(selected_group(App)).client_ip)} :
            \/ current_ip_info = None
            \/ /\ CacheHas(cache, key)
               /\ current_ip_info = Some(CacheGet(cache, key))

\* Right has moved from a chain of 203.0.113.0/24 to the chain of ::1, the
\* cache holds an entry for each and the info on display is that of ::1
C36_Witness ==
    /\ current_view = "DetailView"
    /\ ip_api_enabled
    /\ last_op = "detail_right"
    /\ selected_group(App) = Some(Group3)
    /\ Cardinality(cache) = 2
    /\ current_ip_info = Some(CacheGet(cache, Group3.client_ip))
    /\ current_ip_info # Some(CacheGet(cache, cache_key_of(Group2.client_ip)))

\* C37: a refresh whose parse fails leaves audit_groups, filtered_groups,
\* selected_index, scroll_offset, search_query, search_mode and current_view
\* as they were, and the session goes on: no quit, no abort.
C37_FailedRefreshKeepsState ==
    [][last_op' = "refresh_failed" =>
           /\ UNCHANGED <<audit_groups, filtered_groups, selected_index,
                          scroll_offset, search_query, search_mode, current_view>>
           /\ ~should_quit'
           /\ ~panicked']_vars

\* the parse has failed with the second of two filtered rows selected
C37_Witness ==
    /\ last_op = "refresh_failed"
    /\ Len(audit_groups) = 3
    /\ search_query # <<>>
    /\ Len(filtered_groups) = 2
    /\ selected_index = 1
    /\ current_view = "TableView"
    /\ ~should_quit

\* C38: after handle_click(row, h) returns, for any row, also one at or past
\* the end of the filtered list, selected_index < max(1, |filtered_groups|)
\* (stated for h >= 1, where the call cannot abort).
C38_ClickKeepsSelectionInList ==
    (last_op = "handle_click" /\ last_args[2] >= 1) =>
        selected_index < Max(1, Len(filtered_groups))

\* C39: should_quit becomes true only by the q key handled in the table view
\* with the search box closed; q in the detail view returns to the table
\* view without quitting; a character typed while the search box is open, q
\* included, is appended to the query; once should_quit is true the event
\* loop handles no further event.
C39_QuitOnlyFromTable ==
    [][/\ (should_quit' /\ ~should_quit) =>
              /\ last_op' = "quit"
              /\ current_view = "TableView"
              /\ ~search_mode
       /\ last_op' = "show_table_view" =>
              /\ current_view = "DetailView"
              /\ current_view' = "TableView"
              /\ ~should_quit'
       /\ (current_view = "TableView" /\ search_mode) =>
              /\ ~should_quit'
              /\ last_op' = "add_search_char" =>
                     /\ Len(search_query') = Len(search_query) + 1
                     /\ SubSeq(search_query', 1, Len(search_query)) = search_query
                     /\ search_query'[Len(search_query')] \in SearchChars
       /\ ~should_quit]_vars

\* q typed into the search box has become the query, and q in the table view
\* has then ended the session
C39_Witness ==
    /\ should_quit
    /\ last_op = "quit"
    /\ search_query = <<"q">>
    /\ current_view = "TableView"

\* C40: handle_click(row, h) computes row - (h - 1) without wrapping or
\* aborting for every h >= 0, h = 0 included: when row is at or past
\* scroll_offset + h the call returns and scroll_offset is row - (h - 1).
C40_SnappingNeverUnderflows ==
    [][(last_op' = "handle_click"
        /\ last_args'[1] >= scroll_offset + last_args'[2]) =>
           /\ ~panicked'
           /\ scroll_offset' = last_args'[1] - (last_args'[2] - 1)]_vars

=============================================================================
